---- MODULE Spec2Model ----
(***************************************************************************)
(* Rank-based normalisation, its approximate inverse and the tie-grouped   *)
(* nearest-neighbour recommendation of src/src/utils.ts.                   *)
(*                                                                         *)
(* Numbers.  A raw score is held as an integer counting units of 1e-4, so  *)
(* the sentinel -1 is -10000 and the threshold 0.0001 is 1.  A normalised  *)
(* value and a denormalised value are exact fractions [n, d] in lowest     *)
(* terms (d > 0).  A coordinate is a record over a subset of the fields    *)
(* x, y, z: a component that is undefined in the code is a field the       *)
(* record does not have.  getRank's own undefined result is Undefined.     *)
(*                                                                         *)
(* recommendStyles rounds distances to 5 decimals, which tells entities    *)
(* apart only when they lie within a few 1e-5 of each other.  There a      *)
(* normalised coordinate component is an integer counting units of 1e-6, a *)
(* distance is held by its square (units of 1e-12; Math.sqrt is monotone), *)
(* and a rounded distance is an integer counting units of 1e-5.            *)
(*                                                                         *)
(* The round trip denormalize(normalize(v)) divides and multiplies by n-1, *)
(* which exact fractions undo and IEEE 754 binary64 numbers do not always. *)
(* The last part of the module repeats getRank and getValueAtRank over     *)
(* binary64 numbers, held as fixed-point numbers and rounded to 53         *)
(* significant bits, nearest-even, after every operation, for raw scores   *)
(* that are small non-negative integers.                                   *)
(*                                                                         *)
(* The application of src/src/App.tsx is a fourth machine over the same    *)
(* functions: its state is App's React state, its steps are the handlers   *)
(* and the flushes of effects.  There normCoords are exact fractions and   *)
(* recommendStyles measures distances in twelfths.                         *)
(***************************************************************************)
EXTENDS Integers, Sequences, FiniteSets, TLC

\* Longest entity list given to calculateRankBasedNormalization.
MaxStyles == 3

\* Longest entity list of the binary64 round trip.
MaxRankLen == 23

\* Longest entity list given to recommendStyles.
MaxEntities == 5

\* utils.ts:250  maxRank: number = 5.
DEFAULT_MAX_RANK == 5

\* utils.ts:337  const numPoints = 36.
NUM_POINTS == 36

\* utils.ts:285  let currentDistance = -1, in units of 1e-5.
NO_DISTANCE == -100000

\* App.tsx:42  useState<number | null>(680).
DEFAULT_HEATING_MIN == 680

\* App.tsx:43  null where the state holds a heating score.
NO_SCORE == -1

\* App.tsx:85  null where the state holds an index.
NO_INDEX == -1

\* Most entities in style_master.json.
MaxMaster == 2

\* The genera of GENUS_OPTIONS that the model tells apart.
GenusCount == 2

\* utils.ts:108  v !== -1, in units of 1e-4.
SENTINEL == -10000

\* utils.ts:112  v >= 0.0001, in units of 1e-4.
Z_MIN == 1

VARIABLES
    styleSet,          \* the active axis-pair, "A" = (x, y) or "B" = (x, z)
    styles,            \* the raw entity list passed to normalize
    normalizedStyles,  \* calculateRankBasedNormalization(...).normalizedStyles
    rankMap,           \* calculateRankBasedNormalization(...).rankMap
    normalized,        \* TRUE once calculateRankBasedNormalization has returned
    normCoordIn,       \* the last argument of denormalizeRankBased
    denormOut,         \* the last result of denormalizeRankBased
    recStyles,         \* the entity list passed to recommendStyles
    queryCoord,        \* the query point passed to recommendStyles
    maxRank,           \* the maxRank passed to recommendStyles
    rankGroups,        \* the RankGroup[] recommendStyles returned
    recommended,       \* TRUE once recommendStyles has returned
    contourPath,       \* the path generateContourPath returned
    contoured,         \* TRUE once generateContourPath has returned
    fIndex,            \* binary64 round trip: the entity looked at
    fNorm,             \* its normCoord.x as a binary64 number
    fDenorm,           \* denormalize's x for fNorm as a binary64 number
    fpc,               \* "start", "normalized" or "done"
    masterStyles,      \* App state: the entities loaded from style_master.json
    filteredStyles,    \* App state: normalizedStyles within the heating range
    heatingScoreMin,   \* App state: the lower end of the range, or NO_SCORE
    heatingScoreMax,   \* App state: the upper end of the range, or NO_SCORE
    styleSets,         \* genusData.style_sets: the stored range of each set
    selectedCoord,     \* App state: the selected raw coordinate, or Null
    selectedNormCoord, \* App state: the selected normalised coordinate, or Null
    selectedPointIndex,\* App state: index of the selected saved point, or NO_INDEX
    loadState,         \* loadMasterStyles(): "pending", "done" or "failed"
    fileLoad,          \* handleLoad: the file between its two steps, or Null
    graphSized,        \* StyleGraph state: dimensions.width > 0
    listener,          \* the props the graph's click listener closes over, or Null
    flushDue,          \* a render was committed whose effects have not run
    dirty,             \* the App effects whose dependencies that render changed
    surfaced,          \* the last thing shown to the user by alert
    clickCall,         \* when the last step was a click: what it passed on
    keyCoord,          \* the coordinate passed to keyOf
    keyText,           \* keyOf(keyCoord), or Null before the call
    parsedCoord,       \* parseKey(keyText), or Null before the call
    keyAgain,          \* keyOf(parsedCoord), or Null before the call
    storedPoints,      \* data.style_sets[styleSet].points of the point store
    storeOp,           \* the last call on the point store, or Null
    genus,             \* App state: the selected genus
    genusDataMap       \* App state: the data of every genus, by its key

normVars == <<styles, normalizedStyles, rankMap, normalized, normCoordIn,
              denormOut>>
recVars == <<recStyles, queryCoord, maxRank, rankGroups, recommended,
             contourPath, contoured>>
floatVars == <<fIndex, fNorm, fDenorm, fpc>>
appVars == <<masterStyles, filteredStyles, heatingScoreMin, heatingScoreMax,
             styleSets, selectedCoord, selectedNormCoord, selectedPointIndex, loadState,
             fileLoad, graphSized, listener, flushDue, dirty, surfaced,
             clickCall>>
storeVars == <<keyCoord, keyText, parsedCoord, keyAgain, storedPoints, storeOp,
               genus, genusDataMap>>
vars == <<styleSet, normVars, recVars, floatVars, appVars, storeVars>>

----------------------------------------------------------------------------
(* Exact fractions. *)

RECURSIVE GCD(_, _)
GCD(a, b) == IF b = 0 THEN a ELSE GCD(b, a % b)

Abs(a) == IF a < 0 THEN -a ELSE a

Rat(num, den) ==
    LET g == GCD(Abs(num), Abs(den))
        s == IF den < 0 THEN -1 ELSE 1
    IN  [n |-> (s * num) \div g, d |-> (s * den) \div g]

\* JavaScript undefined where the code holds it in a number variable.
Undefined == [n |-> 0, d |-> 0]

\* coord.y !== undefined, for a field name a.
Has(coord, a) == a \in DOMAIN coord

\* coord[a], Undefined when the field is missing.
Comp(coord, a) == IF Has(coord, a) THEN coord[a] ELSE Undefined

\* The Coordinate { x } with y and z set when they are not undefined.
Coord(x, y, z) ==
    IF y # Undefined /\ z # Undefined THEN [x |-> x, y |-> y, z |-> z]
    ELSE IF y # Undefined THEN [x |-> x, y |-> y]
    ELSE IF z # Undefined THEN [x |-> x, z |-> z]
    ELSE [x |-> x]

Num(i) == [n |-> i, d |-> 1]
Zero == Num(0)
One == Num(1)
Half == Rat(1, 2)

RatLess(a, b) == a.n * b.d < b.n * a.d
RatLeq(a, b) == a.n * b.d <= b.n * a.d
RatMin(a, b) == IF RatLess(b, a) THEN b ELSE a
RatMax(a, b) == IF RatLess(a, b) THEN b ELSE a
RatAdd(a, b) == Rat(a.n * b.d + b.n * a.d, a.d * b.d)
RatSub(a, b) == Rat(a.n * b.d - b.n * a.d, a.d * b.d)
RatMul(a, b) == Rat(a.n * b.n, a.d * b.d)
RatFloor(a) == a.n \div a.d
RatCeil(a) == -((-a.n) \div a.d)

----------------------------------------------------------------------------
(* calculateRankBasedNormalization *)

RECURSIVE Insert(_, _)
Insert(v, s) ==
    IF s = <<>> THEN <<v>>
    ELSE IF v <= Head(s) THEN <<v>> \o s
    ELSE <<Head(s)>> \o Insert(v, Tail(s))

\* The copy left in the order of the entity list.
unsortedCopy(s) == s

\* Array.prototype.sort((a, b) => a - b) on a copy.
RECURSIVE sortAscending(_)
sortAscending(s) ==
    IF s = <<>> THEN <<>> ELSE Insert(Head(s), sortAscending(Tail(s)))

xValues(ss) == [i \in 1..Len(ss) |-> ss[i].x]
yValues(ss, set) == IF set = "A" THEN [i \in 1..Len(ss) |-> ss[i].y] ELSE <<>>
zValues(ss, set) == IF set = "B" THEN [i \in 1..Len(ss) |-> ss[i].z] ELSE <<>>

sortedX(ss) == sortAscending(xValues(ss))

yAdmissible(v) == v # SENTINEL

\* sortedY without the filter that drops -1.
sortedYUnfiltered(ss, set) == sortAscending(yValues(ss, set))

sortedY(ss, set) ==
    IF set = "A"
    THEN sortAscending(SelectSeq(yValues(ss, set), yAdmissible))
    ELSE sortAscending(yValues(ss, set))

zAdmissible(v) == v # SENTINEL /\ v >= Z_MIN

sortedZ(ss, set) ==
    IF set = "B"
    THEN sortAscending(SelectSeq(zValues(ss, set), zAdmissible))
    ELSE sortAscending(zValues(ss, set))

\* The while loop of getRank: the first index whose element is >= value,
\* searched in the 0-based index range lo..hi.
RECURSIVE lowerBound(_, _, _, _)
lowerBound(value, sortedArr, lo, hi) ==
    IF lo < hi
    THEN LET mid == (lo + hi) \div 2
         IN  IF sortedArr[mid + 1] < value
             THEN lowerBound(value, sortedArr, mid + 1, hi)
             ELSE lowerBound(value, sortedArr, lo, mid)
    ELSE lo

\* getRank with the search ending on the last occurrence of value.
getRankLastOccurrence(value, sortedArr) ==
    IF Len(sortedArr) <= 1 THEN Half
    ELSE LET at == {i \in 0..(Len(sortedArr) - 1) : sortedArr[i + 1] = value}
         IN  IF at = {} THEN Undefined
             ELSE Rat(CHOOSE i \in at : \A j \in at : j <= i,
                      Len(sortedArr) - 1)

\* getRank with the membership test made before the length test.
getRankMembershipFirst(value, sortedArr) ==
    IF \A i \in 1..Len(sortedArr) : sortedArr[i] # value THEN Undefined
    ELSE IF Len(sortedArr) <= 1 THEN Half
    ELSE Rat(lowerBound(value, sortedArr, 0, Len(sortedArr) - 1),
             Len(sortedArr) - 1)

\* getRank counting the index from the end of the array.
getRankFromEnd(value, sortedArr) ==
    IF Len(sortedArr) <= 1 THEN Half
    ELSE LET lo == lowerBound(value, sortedArr, 0, Len(sortedArr) - 1)
         IN  IF lo < Len(sortedArr) /\ sortedArr[lo + 1] = value
             THEN Rat(Len(sortedArr) - 1 - lo, Len(sortedArr) - 1)
             ELSE Undefined

getRank(value, sortedArr) ==
    IF Len(sortedArr) <= 1 THEN Half
    ELSE LET lo == lowerBound(value, sortedArr, 0, Len(sortedArr) - 1)
         IN  IF lo < Len(sortedArr) /\ sortedArr[lo + 1] = value
             THEN Rat(lo, Len(sortedArr) - 1)
             ELSE Undefined

\* normalizeStyle ranking y and z whatever the axis-pair.
normalizeStyleBothAxes(style, set, sX, sY, sZ) ==
    [a \in DOMAIN style \cup {"normCoord"} |->
        IF a # "normCoord" THEN style[a]
        ELSE Coord(IF getRank(style.x, sX) = Undefined THEN Half
                   ELSE getRank(style.x, sX),
                   getRank(IF set = "A" THEN style.y ELSE 0, sY),
                   getRank(IF set = "B" THEN style.z ELSE 0, sZ))]

\* The body of styles.map without the spread: { style_id, normCoord }.
normalizeStyleCoordOnly(style, set, sX, sY, sZ) ==
    LET normX == getRank(style.x, sX)
        normY == IF set = "A" THEN getRank(style.y, sY) ELSE Undefined
        normZ == IF set = "B" THEN getRank(style.z, sZ) ELSE Undefined
    IN  [style_id |-> style.style_id,
         normCoord |-> Coord(IF normX = Undefined THEN Half ELSE normX,
                             normY, normZ)]

\* The body of styles.map(style => ...): { ...style, normCoord }.
normalizeStyle(style, set, sX, sY, sZ) ==
    LET x == style.x
        y == IF set = "A" THEN style.y ELSE 0
        z == IF set = "B" THEN style.z ELSE 0
        normX == getRank(x, sX)
        normY == IF set = "A" THEN getRank(y, sY) ELSE Undefined
        normZ == IF set = "B" THEN getRank(z, sZ) ELSE Undefined
    IN  [a \in DOMAIN style \cup {"normCoord"} |->
            IF a # "normCoord" THEN style[a]
            ELSE Coord(IF normX = Undefined THEN Half ELSE normX,
                       normY, normZ)]

calculateRankBasedNormalization(ss, set) ==
    LET sX == sortedX(ss)
        sY == sortedY(ss, set)
        sZ == sortedZ(ss, set)
    IN  [normalizedStyles |->
             [i \in 1..Len(ss) |-> normalizeStyle(ss[i], set, sX, sY, sZ)],
         rankMap |-> [x |-> sX, y |-> sY, z |-> sZ]]

----------------------------------------------------------------------------
(* denormalizeRankBased *)

\* getValueAtRank returning the lower bracketing entry, not interpolating.
getValueAtRankLower(rank, sortedArr) ==
    IF Len(sortedArr) = 0 THEN Zero
    ELSE IF Len(sortedArr) = 1 THEN Num(sortedArr[1])
    ELSE Num(sortedArr[RatFloor(RatMul(RatMax(Zero, RatMin(One, rank)),
                                       Num(Len(sortedArr) - 1))) + 1])

\* getValueAtRank handing the clamped rank back for an empty array.
getValueAtRankEmptyKeepsRank(rank, sortedArr) ==
    IF Len(sortedArr) = 0 THEN RatMax(Zero, RatMin(One, rank))
    ELSE IF Len(sortedArr) = 1 THEN Num(sortedArr[1])
    ELSE LET floatIndex == RatMul(RatMax(Zero, RatMin(One, rank)),
                                  Num(Len(sortedArr) - 1))
             lowerIndex == RatFloor(floatIndex)
             upperIndex == RatCeil(floatIndex)
             weight == RatSub(floatIndex, Num(lowerIndex))
         IN  IF lowerIndex = upperIndex THEN Num(sortedArr[lowerIndex + 1])
             ELSE RatAdd(RatMul(Num(sortedArr[lowerIndex + 1]),
                                RatSub(One, weight)),
                         RatMul(Num(sortedArr[upperIndex + 1]), weight))

getValueAtRank(rank, sortedArr) ==
    IF Len(sortedArr) = 0 THEN Zero
    ELSE IF Len(sortedArr) = 1 THEN Num(sortedArr[1])
    ELSE LET clampedRank == RatMax(Zero, RatMin(One, rank))
             floatIndex == RatMul(clampedRank, Num(Len(sortedArr) - 1))
             lowerIndex == RatFloor(floatIndex)
             upperIndex == RatCeil(floatIndex)
         IN  IF lowerIndex = upperIndex THEN Num(sortedArr[lowerIndex + 1])
             ELSE LET weight == RatSub(floatIndex, Num(lowerIndex))
                  IN  RatAdd(RatMul(Num(sortedArr[lowerIndex + 1]),
                                    RatSub(One, weight)),
                             RatMul(Num(sortedArr[upperIndex + 1]), weight))

\* denormalizeRankBased without the tests of the axis-pair.
denormalizeAnyAxis(normCoord, rm, set) ==
    Coord(getValueAtRank(normCoord.x, rm.x),
          IF Has(normCoord, "y")
          THEN getValueAtRank(normCoord.y, rm.y) ELSE Undefined,
          IF Has(normCoord, "z")
          THEN getValueAtRank(normCoord.z, rm.z) ELSE Undefined)

denormalizeRankBased(normCoord, rm, set) ==
    Coord(getValueAtRank(normCoord.x, rm.x),
          IF set = "A" /\ Has(normCoord, "y")
          THEN getValueAtRank(normCoord.y, rm.y) ELSE Undefined,
          IF set = "B" /\ Has(normCoord, "z")
          THEN getValueAtRank(normCoord.z, rm.z) ELSE Undefined)

----------------------------------------------------------------------------
(* The normalize / denormalize calls as a state machine. *)

\* Raw entities: x of 0.2, 0.5, 0.8; under A, y of -1, 0.3, 0.7; under B,
\* z of -1, -0.5, 0, 0.0001, 0.3.
RawStyles(set) ==
    IF set = "A"
    THEN {[x |-> xv, y |-> yv, z |-> SENTINEL, display |-> TRUE] :
              xv \in {2000, 5000, 8000}, yv \in {SENTINEL, 3000, 7000}}
    ELSE {[x |-> xv, y |-> 3000, z |-> zv, display |-> TRUE] :
              xv \in {2000, 5000},
              zv \in {SENTINEL, -5000, 0, Z_MIN, 3000}}

WithId(raw, id) ==
    [style_id |-> id, x |-> raw.x, y |-> raw.y, z |-> raw.z,
     display |-> raw.display]

\* Normalised coordinates a caller may pass to denormalize besides the
\* entities' own: ranks below 0, inside and above 1, on either axis.
ProbeRanks == {Rat(-1, 2), Rat(1, 4), Half, Rat(3, 2)}

ProbeCoords ==
    {Coord(r, yr, zr) :
        r \in ProbeRanks, yr \in {Undefined, Half}, zr \in {Undefined, Half}}

\* No call yet: the record with no field.
NoCoord == [a \in {} |-> Undefined]
NoRankMap == [x |-> <<>>, y |-> <<>>, z |-> <<>>]

\* JavaScript null in a state that holds an object; in one that holds a
\* number, null is NO_SCORE or NO_INDEX.
Null == [null |-> TRUE]

\* createEmptyGenusData(genus).style_sets, without the points.
createEmptyGenusData ==
    [s \in {"A", "B"} |-> [heatingScoreMin |-> DEFAULT_HEATING_MIN,
                           heatingScoreMax |-> NO_SCORE]]

\* The state declared by App's useState calls and StyleGraph's, before the
\* first render.
AppIdle ==
    /\ masterStyles = <<>>
    /\ filteredStyles = <<>>
    /\ heatingScoreMin = DEFAULT_HEATING_MIN
    /\ heatingScoreMax = NO_SCORE
    /\ styleSets = createEmptyGenusData
    /\ selectedCoord = Null
    /\ selectedNormCoord = Null
    /\ selectedPointIndex = NO_INDEX
    /\ loadState = "pending"
    /\ fileLoad = Null
    /\ graphSized = FALSE
    /\ listener = Null
    /\ flushDue = FALSE
    /\ dirty = {}
    /\ surfaced = "none"
    /\ clickCall = Null

\* GENUS_OPTIONS, the first GenusCount of its names.
GENUS_OPTIONS == 1..GenusCount

\* createEmptyGenusData(genus): the genus and, under each style set, the
\* heating score range and the empty point list.
emptyGenusData(g) ==
    [genus |-> g,
     style_sets |-> [s \in {"A", "B"} |->
                        [heatingScoreMin |-> DEFAULT_HEATING_MIN,
                         heatingScoreMax |-> NO_SCORE,
                         points |-> <<>>]]]

\* The genusDataMap of useState: createEmptyGenusData(g) under every g.
emptyGenusDataMap == [g \in GENUS_OPTIONS |-> emptyGenusData(g)]

\* No key computed, an empty point store, the first genus selected.
StoreIdle ==
    /\ keyCoord = NoCoord
    /\ keyText = Null
    /\ parsedCoord = Null
    /\ keyAgain = Null
    /\ storedPoints = <<>>
    /\ storeOp = Null
    /\ genus = 1
    /\ genusDataMap = emptyGenusDataMap

FloatIdle ==
    /\ fIndex = 0
    /\ fNorm = <<>>
    /\ fDenorm = <<>>
    /\ fpc = "start"

InitNorm ==
    /\ styleSet \in {"A", "B"}
    /\ \E n \in 0..MaxStyles :
           \E f \in [1..n -> RawStyles(styleSet)] :
               styles = [i \in 1..n |-> WithId(f[i], i)]
    /\ normalizedStyles = <<>>
    /\ rankMap = NoRankMap
    /\ normalized = FALSE
    /\ normCoordIn = NoCoord
    /\ denormOut = NoCoord
    /\ recStyles = <<>>
    /\ queryCoord = NoCoord
    /\ maxRank = DEFAULT_MAX_RANK
    /\ rankGroups = <<>>
    /\ recommended = FALSE
    /\ contourPath = <<>>
    /\ contoured = FALSE
    /\ FloatIdle
    /\ AppIdle
    /\ StoreIdle

Normalize ==
    /\ ~normalized
    /\ LET r == calculateRankBasedNormalization(styles, styleSet)
       IN  /\ normalizedStyles' = r.normalizedStyles
           /\ rankMap' = r.rankMap
    /\ normalized' = TRUE
    /\ UNCHANGED <<styleSet, styles, normCoordIn, denormOut, recVars,
                   floatVars, appVars, storeVars>>

Denormalize ==
    /\ normalized
    /\ normCoordIn = NoCoord
    /\ \E c \in ProbeCoords \cup
                {normalizedStyles[i].normCoord : i \in 1..Len(normalizedStyles)} :
           /\ normCoordIn' = c
           /\ denormOut' = denormalizeRankBased(c, rankMap, styleSet)
    /\ UNCHANGED <<styleSet, styles, normalizedStyles, rankMap, normalized,
                   recVars, floatVars, appVars, storeVars>>

NextNorm == Normalize \/ Denormalize

SpecNorm == InitNorm /\ [][NextNorm]_vars

----------------------------------------------------------------------------
(* recommendStyles *)

\* Math.sqrt(sumSq) is left out: the function returns sumSq.
RECURSIVE euclideanDistanceSq(_, _, _)
euclideanDistanceSq(coord1, coord2, axes) ==
    IF axes = <<>> THEN 0
    ELSE LET axis == Head(axes)
             val1 == IF Has(coord1, axis) THEN coord1[axis] ELSE 0
             val2 == IF Has(coord2, axis) THEN coord2[axis] ELSE 0
             diff == val1 - val2
         IN  diff * diff + euclideanDistanceSq(coord1, coord2, Tail(axes))

\* All three axes, whatever the axis-pair.
allAxes(set) == <<"x", "y", "z">>

activeAxes(set) == IF set = "A" THEN <<"x", "y">> ELSE <<"x", "z">>

\* eligible without the test of the display flag.
eligibleIgnoringDisplay(s, set) ==
    /\ Has(s, "normCoord")
    /\ ~(set = "A" /\ ~Has(s.normCoord, "y"))
    /\ ~(set = "B" /\ ~Has(s.normCoord, "z"))

\* The predicate of styles.filter(...).
eligible(s, set) ==
    /\ s.display = TRUE
    /\ Has(s, "normCoord")
    /\ ~(set = "A" /\ ~Has(s.normCoord, "y"))
    /\ ~(set = "B" /\ ~Has(s.normCoord, "z"))

filtered(ss, set) == LET Test(s) == eligible(s, set) IN SelectSeq(ss, Test)

\* Array.prototype.sort((a, b) => a.distance - b.distance): stable.
RECURSIVE InsertByDistance(_, _)
InsertByDistance(item, s) ==
    IF s = <<>> THEN <<item>>
    ELSE IF item.distance <= Head(s).distance THEN <<item>> \o s
    ELSE <<Head(s)>> \o InsertByDistance(item, Tail(s))

\* The items left in the order of the filtered list.
notSortedByDistance(s) == s

RECURSIVE sortByDistance(_)
sortByDistance(s) ==
    IF s = <<>> THEN <<>>
    ELSE InsertByDistance(Head(s), sortByDistance(Tail(s)))

ranked(query, ss, set) ==
    LET f == filtered(ss, set)
    IN  sortByDistance(
            [i \in 1..Len(f) |->
                [style |-> f[i],
                 distance |-> euclideanDistanceSq(query, f[i].normCoord,
                                                  activeAxes(set)),
                 rank |-> 0]])

\* The least r >= from with sqrt(sumSq) < 10 r + 5.
RECURSIVE nearestFrom(_, _)
nearestFrom(sumSq, from) ==
    IF sumSq < (10 * from + 5) * (10 * from + 5) THEN from
    ELSE nearestFrom(sumSq, from + 1)

\* The least r >= from with sqrt(sumSq) < 10 r + 10.
RECURSIVE floorFrom(_, _)
floorFrom(sumSq, from) ==
    IF sumSq < (10 * from + 10) * (10 * from + 10) THEN from
    ELSE floorFrom(sumSq, from + 1)

\* The distance cut to 5 decimals instead of rounded.
roundedDistTruncated(sumSq) == floorFrom(sumSq, 0)

\* parseFloat(distance.toFixed(5)): the nearest multiple of 1e-5, the larger
\* of two equally near.
roundedDistOf(sumSq) == nearestFrom(sumSq, 0)

\* The loop without its break: a new group is opened at any rank.
RECURSIVE groupLoopNoBreak(_, _, _, _, _, _)
groupLoopNoBreak(items, i, groups, currentRank, currentDistance, mr) ==
    IF i > Len(items) THEN groups
    ELSE LET item == items[i]
             roundedDist == roundedDistOf(item.distance)
         IN  IF currentDistance = NO_DISTANCE \/ roundedDist # currentDistance
             THEN groupLoopNoBreak(items, i + 1,
                                   Append(groups,
                                          [rank |-> currentRank,
                                           styles |-> <<item.style>>,
                                           distance |-> roundedDist]),
                                   currentRank + 1, roundedDist, mr)
             ELSE groupLoopNoBreak(items, i + 1,
                                   [groups EXCEPT ![Len(groups)].styles =
                                                      Append(@, item.style)],
                                   currentRank, currentDistance, mr)

\* The loop with the break tested first: it stops as soon as the rank
\* counter has passed maxRank, whatever the next item's distance.
RECURSIVE groupLoopBreakFirst(_, _, _, _, _, _)
groupLoopBreakFirst(items, i, groups, currentRank, currentDistance, mr) ==
    IF i > Len(items) \/ currentRank > mr THEN groups
    ELSE LET item == items[i]
             roundedDist == roundedDistOf(item.distance)
         IN  IF currentDistance = NO_DISTANCE \/ roundedDist # currentDistance
             THEN groupLoopBreakFirst(items, i + 1,
                                      Append(groups,
                                             [rank |-> currentRank,
                                              styles |-> <<item.style>>,
                                              distance |-> roundedDist]),
                                      currentRank + 1, roundedDist, mr)
             ELSE groupLoopBreakFirst(items, i + 1,
                                      [groups EXCEPT ![Len(groups)].styles =
                                                         Append(@, item.style)],
                                      currentRank, currentDistance, mr)

\* The loop comparing the distances themselves, not rounded: the group's
\* distance field keeps the distance of its first member.
RECURSIVE groupLoopUnrounded(_, _, _, _, _, _)
groupLoopUnrounded(items, i, groups, currentRank, currentDistance, mr) ==
    IF i > Len(items) THEN groups
    ELSE LET item == items[i]
         IN  IF currentDistance = NO_DISTANCE \/ item.distance # currentDistance
             THEN IF currentRank > mr THEN groups
                  ELSE groupLoopUnrounded(items, i + 1,
                                          Append(groups,
                                                 [rank |-> currentRank,
                                                  styles |-> <<item.style>>,
                                                  distance |->
                                                      roundedDistOf(item.distance)]),
                                          currentRank + 1, item.distance, mr)
             ELSE groupLoopUnrounded(items, i + 1,
                                     [groups EXCEPT ![Len(groups)].styles =
                                                        Append(@, item.style)],
                                     currentRank, currentDistance, mr)

\* The for loop over ranked, from its i-th item on.
RECURSIVE groupLoop(_, _, _, _, _, _)
groupLoop(items, i, groups, currentRank, currentDistance, mr) ==
    IF i > Len(items) THEN groups
    ELSE LET item == items[i]
             roundedDist == roundedDistOf(item.distance)
         IN  IF currentDistance = NO_DISTANCE \/ roundedDist # currentDistance
             THEN IF currentRank > mr THEN groups
                  ELSE groupLoop(items, i + 1,
                                 Append(groups,
                                        [rank |-> currentRank,
                                         styles |-> <<item.style>>,
                                         distance |-> roundedDist]),
                                 currentRank + 1, roundedDist, mr)
             ELSE groupLoop(items, i + 1,
                            [groups EXCEPT ![Len(groups)].styles =
                                               Append(@, item.style)],
                            currentRank, currentDistance, mr)

recommendStyles(query, ss, set, mr) ==
    groupLoop(ranked(query, ss, set), 1, <<>>, 1, NO_DISTANCE, mr)

----------------------------------------------------------------------------
(* generateContourPath *)

\* coord.y ?? 0 under A, coord.z ?? 0 under B.
secondaryOrZero(coord, set) ==
    IF set = "A" THEN (IF Has(coord, "y") THEN coord.y ELSE 0)
    ELSE (IF Has(coord, "z") THEN coord.z ELSE 0)

\* styles.map(...): the entities' positions in the plane, (0, 0) for an
\* entity without normCoord.
contourPoints(ss, set) ==
    [k \in 1..Len(ss) |->
        IF ~Has(ss[k], "normCoord") THEN [x |-> 0, y |-> 0]
        ELSE [x |-> ss[k].normCoord.x,
              y |-> secondaryOrZero(ss[k].normCoord, set)]]

\* The squares of the distances of the points to the centre.
contourDistancesSq(points, centerX, centerY) ==
    [k \in 1..Len(points) |->
        (points[k].x - centerX) * (points[k].x - centerX)
        + (points[k].y - centerY) * (points[k].y - centerY)]

\* circlePoints with the loop stopping at i < numPoints.
circlePointsOpen(center, radius) ==
    [i \in 1..NUM_POINTS |->
        [center |-> center, radius |-> radius, turn |-> i - 1]]

\* circlePoints: point i, for the turn i of numPoints + 1, is
\*   { x: center.x + radius * cos(turn / 36 * 2 pi),
\*     y: center.y + radius * sin(turn / 36 * 2 pi) },
\* held by the operands center, radius and turn.
circlePoints(center, radius) ==
    [i \in 1..(NUM_POINTS + 1) |->
        [center |-> center, radius |-> radius, turn |-> i - 1]]

\* generateContourPath without the test of the empty list.
generateContourPathNoGuard(ss, set, centerCoord) ==
    circlePoints([x |-> centerCoord.x, y |-> secondaryOrZero(centerCoord, set)],
                 [sqrtSum |-> <<>>, count |-> 0])

\* The radius is the sum of the square roots of sqrtSum divided by count.
generateContourPath(ss, set, centerCoord) ==
    IF Len(ss) = 0 THEN <<>>
    ELSE LET centerX == centerCoord.x
             centerY == secondaryOrZero(centerCoord, set)
             distances == contourDistancesSq(contourPoints(ss, set),
                                             centerX, centerY)
             radius == [sqrtSum |-> distances, count |-> Len(distances)]
         IN  circlePoints([x |-> centerX, y |-> centerY], radius)

\* Math.floor(Math.sqrt(n)) of a natural number.
isqrt(n) == CHOOSE r \in 0..n : r * r <= n /\ (r + 1) * (r + 1) > n

\* An integer bound of the sum of the square roots of the numbers of a
\* list: from below with the roots rounded down, from above with the roots
\* rounded up.
RECURSIVE sumOfRoots(_, _)
sumOfRoots(squares, up) ==
    IF squares = <<>> THEN 0
    ELSE LET r == isqrt(Head(squares))
         IN  (IF up /\ r * r # Head(squares) THEN r + 1 ELSE r)
             + sumOfRoots(Tail(squares), up)

\* Math.cos and Math.sin in binary64 at the angles of the first and of the
\* last turn. The last angle, (36 / 36) * 2 * Math.PI, is the double next
\* to 2 pi and lies below it: its cosine rounds to 1, its sine is
\* -2.4492935982947064e-16, which is 2.206 * 2^-53 in magnitude.
cosOfTurn(turn) ==
    IF turn = 0 \/ turn = NUM_POINTS THEN "one" ELSE "between"

sinOfTurn(turn) ==
    IF turn = 0 THEN "zero"
    ELSE IF turn = NUM_POINTS THEN "minus 2.206 * 2^-53"
    ELSE "between"

\* center.y + radius * Math.sin(angle) of the last point against that of
\* the first, which is center.y + radius * 0 = center.y. The product
\* radius * sin is -2.206 * 2^-53 * radius; half the gap between center.y
\* and the double below it is between |center.y| * 2^-54 and
\* |center.y| * 2^-53. With radius = sum / count:
\*   "same"   when the radius is 0, or when 5 * radius < |center.y|;
\*   "below"  when 2 * radius > |center.y|;
\*   "either" between the two, where the integer bounds do not decide.
closingY(center, radius) ==
    LET n == radius.count
        lo == sumOfRoots(radius.sqrtSum, FALSE)
        hi == sumOfRoots(radius.sqrtSum, TRUE)
    IN  IF hi = 0 THEN "same"
        ELSE IF 2 * lo > n * Abs(center.y) THEN "below"
        ELSE IF 5 * hi < n * Abs(center.y) THEN "same"
        ELSE "either"

\* The first and the last point of a path as numbers: "same" when x and y
\* are both the same doubles, "apart" when one of them differs.
firstAgainstLast(path) ==
    LET first == path[1]
        last == path[Len(path)]
        sameX == /\ cosOfTurn(first.turn) = "one"
                 /\ cosOfTurn(last.turn) = "one"
                 /\ first.center = last.center
                 /\ first.radius = last.radius
        y == IF sinOfTurn(first.turn) = "zero"
                /\ sinOfTurn(last.turn) = "minus 2.206 * 2^-53"
             THEN closingY(last.center, last.radius)
             ELSE "either"
    IN  IF ~sameX \/ y = "below" THEN "apart"
        ELSE IF y = "same" THEN "same"
        ELSE "either"

----------------------------------------------------------------------------
(* The recommend and contour calls as a state machine. *)

\* Entities around one spot of the normalised plane (units of 1e-6): four
\* eligible positions, a hidden entity, one without normCoord and one whose
\* active secondary component is missing.
RecStyles(set) ==
    IF set = "A"
    THEN {[display |-> TRUE, normCoord |-> [x |-> xv, y |-> 0]] :
              xv \in {8, 12, 20, 30}}
         \cup {[display |-> FALSE, normCoord |-> [x |-> 8, y |-> 0]],
               [display |-> TRUE],
               [display |-> TRUE, normCoord |-> [x |-> 8]]}
    ELSE {[display |-> TRUE, normCoord |-> [x |-> xv, z |-> 0]] :
              xv \in {8, 20}}
         \cup {[display |-> FALSE, normCoord |-> [x |-> 8, z |-> 0]],
               [display |-> TRUE],
               [display |-> TRUE, normCoord |-> [x |-> 8, y |-> 0]]}

RecWithId(s, id) ==
    IF Has(s, "normCoord")
    THEN [style_id |-> id, display |-> s.display, normCoord |-> s.normCoord]
    ELSE [style_id |-> id, display |-> s.display]

Queries(set) ==
    IF set = "A"
    THEN {[x |-> 2, y |-> 3], [x |-> 10, y |-> 0]}
    ELSE {[x |-> 2, z |-> 3], [x |-> 10, z |-> 0]}

MaxRanks == {0, 1, 2, DEFAULT_MAX_RANK}

NormIdle ==
    /\ styles = <<>>
    /\ normalizedStyles = <<>>
    /\ rankMap = NoRankMap
    /\ normalized = FALSE
    /\ normCoordIn = NoCoord
    /\ denormOut = NoCoord

InitRec ==
    /\ styleSet \in {"A", "B"}
    /\ \E n \in 0..MaxEntities :
           \E f \in [1..n -> RecStyles(styleSet)] :
               recStyles = [i \in 1..n |-> RecWithId(f[i], i)]
    /\ queryCoord \in Queries(styleSet)
    /\ maxRank = DEFAULT_MAX_RANK
    /\ rankGroups = <<>>
    /\ recommended = FALSE
    /\ contourPath = <<>>
    /\ contoured = FALSE
    /\ NormIdle
    /\ FloatIdle
    /\ AppIdle
    /\ StoreIdle

\* generateContourPath on the entity list, centred at the query.
Contour ==
    /\ ~contoured
    /\ ~recommended
    /\ contourPath' = generateContourPath(recStyles, styleSet, queryCoord)
    /\ contoured' = TRUE
    /\ UNCHANGED <<styleSet, recStyles, queryCoord, maxRank, rankGroups,
                   recommended, normVars, floatVars, appVars, storeVars>>

\* recommendStyles on the same list and query, with any maxRank.
Recommend ==
    /\ contoured
    /\ ~recommended
    /\ \E mr \in MaxRanks :
           /\ maxRank' = mr
           /\ rankGroups' = recommendStyles(queryCoord, recStyles, styleSet, mr)
    /\ recommended' = TRUE
    /\ UNCHANGED <<styleSet, recStyles, queryCoord, contourPath, contoured,
                   normVars, floatVars, appVars, storeVars>>

NextRec == Contour \/ Recommend

SpecRec == InitRec /\ [][NextRec]_vars

----------------------------------------------------------------------------
(* The four calls side by side: one caller holds a raw entity list, which  *)
(* it normalises and denormalises against, and a normalised entity list,   *)
(* for which it asks a contour and a recommendation, in any interleaving.  *)

\* Longest list of either kind the caller holds.
MaxCallLen == 2

\* Three raw entities of RawStyles: two share x, one has no usable
\* secondary score.
CallStyles(set) ==
    {r \in RawStyles(set) :
        IF set = "A"
        THEN \/ (r.x = 2000 /\ r.y = SENTINEL)
             \/ (r.x = 5000 /\ r.y # SENTINEL)
        ELSE \/ (r.x = 2000 /\ r.z = SENTINEL)
             \/ (r.x = 5000 /\ r.z \in {Z_MIN, 3000})}

\* Three entities of RecStyles: two eligible ones and the hidden one.
CallEntities(set) ==
    {e \in RecStyles(set) :
        /\ Has(e, "normCoord")
        /\ e.normCoord.x \in {8, 20}
        /\ Has(e.normCoord, IF set = "A" THEN "y" ELSE "z")}

InitCalls ==
    /\ styleSet \in {"A", "B"}
    /\ \E n \in 0..MaxCallLen :
           \E f \in [1..n -> CallStyles(styleSet)] :
               styles = [i \in 1..n |-> WithId(f[i], i)]
    /\ \E n \in 0..MaxCallLen :
           \E f \in [1..n -> CallEntities(styleSet)] :
               recStyles = [i \in 1..n |-> RecWithId(f[i], i)]
    /\ queryCoord \in Queries(styleSet)
    /\ normalizedStyles = <<>>
    /\ rankMap = NoRankMap
    /\ normalized = FALSE
    /\ normCoordIn = NoCoord
    /\ denormOut = NoCoord
    /\ maxRank = DEFAULT_MAX_RANK
    /\ rankGroups = <<>>
    /\ recommended = FALSE
    /\ contourPath = <<>>
    /\ contoured = FALSE
    /\ FloatIdle
    /\ AppIdle
    /\ StoreIdle

NextCalls == Normalize \/ Denormalize \/ Contour \/ Recommend

SpecCalls == InitCalls /\ [][NextCalls]_vars

----------------------------------------------------------------------------
(* IEEE 754 binary64 numbers >= 0, as fixed-point numbers: a sequence of   *)
(* LIMBS digits in base 2^LIMB_BITS, lowest first, the last digit being    *)
(* the integer part and the others the fraction.                           *)

\* Bits of one digit.
LIMB_BITS == 16

\* Digits after the binary point: 64 bits, enough for 53 significant bits
\* of any quotient i/m with m < 2^10.
FRAC_LIMBS == 4

\* Significant bits of a binary64 number.
MANTISSA_BITS == 53

LIMBS == FRAC_LIMBS + 1
BASE == 2^LIMB_BITS
WIDTH == LIMBS * LIMB_BITS

MaxOf(S) == CHOOSE i \in S : \A j \in S : j <= i

\* The integer k.
FromInt(k) == [l \in 1..LIMBS |-> IF l = LIMBS THEN k ELSE 0]

\* Math.floor and Math.ceil.
FFloor(a) == a[LIMBS]
FCeil(a) ==
    IF \A l \in 1..FRAC_LIMBS : a[l] = 0 THEN a[LIMBS] ELSE a[LIMBS] + 1

FLess(a, b) ==
    LET differ == {l \in 1..LIMBS : a[l] # b[l]}
    IN  differ # {} /\ a[MaxOf(differ)] < b[MaxOf(differ)]

FMin(a, b) == IF FLess(b, a) THEN b ELSE a
FMax(a, b) == IF FLess(a, b) THEN b ELSE a

\* Exact sum, difference (a >= b) and product by a small integer, digit by
\* digit from the lowest.
RECURSIVE addFrom(_, _, _, _)
addFrom(a, b, l, carry) ==
    IF l > LIMBS THEN <<>>
    ELSE <<(a[l] + b[l] + carry) % BASE>>
         \o addFrom(a, b, l + 1, (a[l] + b[l] + carry) \div BASE)

RECURSIVE subFrom(_, _, _, _)
subFrom(a, b, l, borrow) ==
    IF l > LIMBS THEN <<>>
    ELSE <<(a[l] - b[l] - borrow) % BASE>>
         \o subFrom(a, b, l + 1, IF a[l] - b[l] - borrow < 0 THEN 1 ELSE 0)

RECURSIVE mulFrom(_, _, _, _)
mulFrom(a, k, l, carry) ==
    IF l > LIMBS THEN <<>>
    ELSE <<(a[l] * k + carry) % BASE>>
         \o mulFrom(a, k, l + 1, (a[l] * k + carry) \div BASE)

\* Bit j of a, bit 1 the lowest, and the number with the bits below j
\* cleared.
BitOf(a, j) == (a[((j - 1) \div LIMB_BITS) + 1] \div 2^((j - 1) % LIMB_BITS)) % 2

ClearBelow(a, j) ==
    [l \in 1..LIMBS |->
        IF l * LIMB_BITS < j THEN 0
        ELSE IF (l - 1) * LIMB_BITS >= j - 1 THEN a[l]
        ELSE a[l] - (a[l] % 2^((j - 1) % LIMB_BITS))]

UnitAt(j) ==
    [l \in 1..LIMBS |->
        IF l = ((j - 1) \div LIMB_BITS) + 1 THEN 2^((j - 1) % LIMB_BITS)
        ELSE 0]

\* Round to nearest, ties to even, at 53 significant bits; sticky tells that
\* the exact value has further non-zero bits below the lowest digit.
RoundNearestEven(a, sticky) ==
    LET ones == {j \in 1..WIDTH : BitOf(a, j) = 1}
    IN  IF ones = {} THEN a
        ELSE LET low == MaxOf(ones) - (MANTISSA_BITS - 1)
             IN  IF low <= 1 THEN a
                 ELSE LET rest == sticky
                                  \/ \E j \in 1..(low - 2) : BitOf(a, j) = 1
                      IN  IF BitOf(a, low - 1) = 1
                             /\ (rest \/ BitOf(a, low) = 1)
                          THEN addFrom(ClearBelow(a, low), UnitAt(low), 1, 0)
                          ELSE ClearBelow(a, low)

FAdd(a, b) == RoundNearestEven(addFrom(a, b, 1, 0), FALSE)
FSub(a, b) == RoundNearestEven(subFrom(a, b, 1, 0), FALSE)
FMulInt(a, k) == RoundNearestEven(mulFrom(a, k, 1, 0), FALSE)

\* Long division: the next k fraction digits of rem/m, highest first, and
\* the remainder left.
RECURSIVE divSteps(_, _, _)
divSteps(rem, m, k) ==
    IF k = 0 THEN [digits |-> <<>>, rem |-> rem]
    ELSE LET next == divSteps((rem * BASE) % m, m, k - 1)
         IN  [digits |-> <<(rem * BASE) \div m>> \o next.digits,
              rem |-> next.rem]

\* i / m for integers 0 <= i, 0 < m.
FDiv(i, m) ==
    LET q == divSteps(i % m, m, FRAC_LIMBS)
    IN  RoundNearestEven(
            [l \in 1..LIMBS |->
                IF l = LIMBS THEN i \div m ELSE q.digits[FRAC_LIMBS + 1 - l]],
            q.rem # 0)

FUndefined == <<>>

\* getRank over binary64 numbers.
getRankF(value, sortedArr) ==
    IF Len(sortedArr) <= 1 THEN FDiv(1, 2)
    ELSE LET lo == lowerBound(value, sortedArr, 0, Len(sortedArr) - 1)
         IN  IF lo < Len(sortedArr) /\ sortedArr[lo + 1] = value
             THEN FDiv(lo, Len(sortedArr) - 1)
             ELSE FUndefined

\* getValueAtRank over binary64 numbers.
getValueAtRankF(rank, sortedArr) ==
    IF Len(sortedArr) = 0 THEN FromInt(0)
    ELSE IF Len(sortedArr) = 1 THEN FromInt(sortedArr[1])
    ELSE LET clampedRank == FMax(FromInt(0), FMin(FromInt(1), rank))
             floatIndex == FMulInt(clampedRank, Len(sortedArr) - 1)
             lowerIndex == FFloor(floatIndex)
             upperIndex == FCeil(floatIndex)
         IN  IF lowerIndex = upperIndex THEN FromInt(sortedArr[lowerIndex + 1])
             ELSE LET weight == FSub(floatIndex, FromInt(lowerIndex))
                  IN  FAdd(FMulInt(FSub(FromInt(1), weight),
                                   sortedArr[lowerIndex + 1]),
                           FMulInt(weight, sortedArr[upperIndex + 1]))

----------------------------------------------------------------------------
(* The round trip of one entity's x over binary64 numbers. *)

\* n entities under A in descending x order: x = n-1, ..., 1, 0, or each
\* value twice.
FloatStyles(n, twice) ==
    [k \in 1..n |->
        [style_id |-> k, x |-> (n - k) \div twice, y |-> SENTINEL,
         z |-> SENTINEL, display |-> TRUE]]

InitFloat ==
    /\ styleSet = "A"
    /\ \E n \in 1..MaxRankLen : \E twice \in {1, 2} :
           /\ styles = FloatStyles(n, twice)
           /\ fIndex \in 1..n
    /\ normalizedStyles = <<>>
    /\ rankMap = NoRankMap
    /\ normalized = FALSE
    /\ normCoordIn = NoCoord
    /\ denormOut = NoCoord
    /\ recStyles = <<>>
    /\ queryCoord = NoCoord
    /\ maxRank = DEFAULT_MAX_RANK
    /\ rankGroups = <<>>
    /\ recommended = FALSE
    /\ contourPath = <<>>
    /\ contoured = FALSE
    /\ fNorm = <<>>
    /\ fDenorm = <<>>
    /\ fpc = "start"
    /\ AppIdle
    /\ StoreIdle

\* calculateRankBasedNormalization: the rank map and the entity's normCoord.x.
NormalizeFloat ==
    /\ fpc = "start"
    /\ rankMap' = [x |-> sortedX(styles), y |-> sortedY(styles, styleSet),
                   z |-> sortedZ(styles, styleSet)]
    /\ fNorm' = getRankF(styles[fIndex].x, sortedX(styles))
    /\ normalized' = TRUE
    /\ fpc' = "normalized"
    /\ UNCHANGED <<styleSet, styles, normalizedStyles, normCoordIn, denormOut,
                   recVars, fIndex, fDenorm, appVars, storeVars>>

\* denormalizeRankBased: result.x.
DenormalizeFloat ==
    /\ fpc = "normalized"
    /\ fDenorm' = getValueAtRankF(fNorm, rankMap.x)
    /\ fpc' = "done"
    /\ UNCHANGED <<styleSet, normVars, recVars, fIndex, fNorm, appVars, storeVars>>

NextFloat == NormalizeFloat \/ DenormalizeFloat

SpecFloat == InitFloat /\ [][NextFloat]_vars

----------------------------------------------------------------------------
(* The application: App.tsx and the click listener of StyleGraph.tsx.       *)
(*                                                                          *)
(* A state of this machine is a committed render.  React runs the effects   *)
(* of a committed render later, in one flush, before it renders anything    *)
(* else; the state the effects set is committed by the render that follows  *)
(* the flush.  flushDue says that a render was committed whose effects have *)
(* not run, dirty names the effects of App whose dependencies that render   *)
(* changed.  The graph's click listener is a native listener: it is         *)
(* registered by an effect of StyleGraph and keeps the props of the render  *)
(* whose effects registered it until that effect runs again.                *)
(*                                                                          *)
(* Saved points, genus selection and score editing are not part of this     *)
(* machine: the list of saved points is empty throughout.                   *)

\* style_master.json: up to MaxMaster entities, some without a usable y or
\* z, with heating scores on either side of the default lower end.
MasterRaw ==
    {[x |-> v[1], y |-> v[2], z |-> v[3], display |-> TRUE,
      heating_score |-> v[4]] :
        v \in {<<2000, 3000, 3000, 700>>, <<5000, 7000, SENTINEL, 600>>}}

MasterLists ==
    UNION {{[i \in 1..n |->
               [a \in DOMAIN f[i] \cup {"style_id"} |->
                   IF a = "style_id" THEN i ELSE f[i][a]]] :
            f \in [1..n -> MasterRaw]} : n \in 0..MaxMaster}

\* What the user may type into a heating score input: nothing, or a score.
HeatingInputs == {NO_SCORE, DEFAULT_HEATING_MIN}

\* Saved files of the simplified format.
Files ==
    [styleSet : {"A", "B"}, heatingScoreMin : HeatingInputs,
     heatingScoreMax : HeatingInputs]

\* Two positions of the graph a click may hit, in [0, 1] x [0, 1].
ClickPositions == {<<Rat(1, 4), One>>, <<One, Rat(1, 4)>>}

\* StyleGraph's click handler: { x } and the set's secondary component.
ClickCoords(set) ==
    IF set = "A" THEN {[x |-> p[1], y |-> p[2]] : p \in ClickPositions}
    ELSE {[x |-> p[1], z |-> p[2]] : p \in ClickPositions}

\* The predicate of normalizedStyles.filter(...) of the filter effect.
inHeatingRange(style, lo, hi) ==
    LET score == IF Has(style, "heating_score") THEN style.heating_score
                 ELSE 0
    IN  IF lo = NO_SCORE /\ hi = NO_SCORE THEN TRUE
        ELSE IF lo # NO_SCORE /\ hi = NO_SCORE THEN score >= lo
        ELSE IF lo = NO_SCORE /\ hi # NO_SCORE THEN score <= hi
        ELSE score >= lo /\ score <= hi

\* The filter effect's new filteredStyles.
filterByHeating(ss, lo, hi) ==
    IF Len(ss) > 0
    THEN LET Test(s) == inHeatingRange(s, lo, hi) IN SelectSeq(ss, Test)
    ELSE <<>>

\* A normalised coordinate in whole twelfths.  With at most MaxMaster + 1
\* entities a rank is a multiple of 1/2 and a click a multiple of 1/4.
inTwelfths(coord) ==
    [a \in DOMAIN coord |-> (12 * coord[a].n) \div coord[a].d]

\* ranked over coordinates that are fractions: the distance is held by its
\* square in units of 1/144.
rankedOfFractions(query, ss, set) ==
    LET f == filtered(ss, set)
    IN  sortByDistance(
            [i \in 1..Len(f) |->
                [style |-> f[i],
                 distance |-> euclideanDistanceSq(inTwelfths(query),
                                                  inTwelfths(f[i].normCoord),
                                                  activeAxes(set)),
                 rank |-> 0]])

\* The for loop over distances held by their squares in units of 1/144.
\* Two such distances below 2 differ by more than 1e-3 when they differ, so
\* their roundings to 5 decimals are equal exactly when the squares are; the
\* group's distance field is the square.
RECURSIVE groupLoopOfFractions(_, _, _, _, _, _)
groupLoopOfFractions(items, i, groups, currentRank, currentDistance, mr) ==
    IF i > Len(items) THEN groups
    ELSE LET item == items[i]
             roundedDist == item.distance
         IN  IF currentDistance = NO_DISTANCE \/ roundedDist # currentDistance
             THEN IF currentRank > mr THEN groups
                  ELSE groupLoopOfFractions(items, i + 1,
                                            Append(groups,
                                                   [rank |-> currentRank,
                                                    styles |-> <<item.style>>,
                                                    distance |-> roundedDist]),
                                            currentRank + 1, roundedDist, mr)
             ELSE groupLoopOfFractions(items, i + 1,
                                       [groups EXCEPT ![Len(groups)].styles =
                                                          Append(@, item.style)],
                                       currentRank, currentDistance, mr)

\* recommendStyles as App calls it, on normCoords that are fractions.
recommendStylesOfFractions(query, ss, set, mr) ==
    groupLoopOfFractions(rankedOfFractions(query, ss, set), 1, <<>>, 1,
                         NO_DISTANCE, mr)

\* The variables of the other machines, which the application leaves alone.
appFrame == <<styles, normalized, normCoordIn, denormOut, recStyles,
              queryCoord, maxRank, recommended, contourPath, contoured,
              floatVars, storeVars>>

\* The getRank helper of handleSave, handlePointHover, handlePointSelect
\* and the render: the first index whose element is >= val, searched from
\* low = 0 to high = arr.length, divided by arr.length (by 1 when empty).
appGetRank(val, arr) ==
    Rat(lowerBound(val, arr, 0, Len(arr)), IF Len(arr) > 0 THEN Len(arr) ELSE 1)

\* The effects with styleSet in their dependency list, less the one that
\* resets the selection.
effectsOfStyleSetNoReset == {"normalize"}

\* The effects with styleSet in their dependency list: the normalization
\* ([masterStyles, styleSet]) and the reset of the selection ([styleSet]).
effectsOfStyleSet == {"normalize", "reset"}

\* The first committed render: every effect is still to run.
InitApp ==
    /\ styleSet = "A"
    /\ styles = <<>>
    /\ normalizedStyles = <<>>
    /\ rankMap = Null
    /\ normalized = FALSE
    /\ normCoordIn = NoCoord
    /\ denormOut = NoCoord
    /\ recStyles = <<>>
    /\ queryCoord = NoCoord
    /\ maxRank = DEFAULT_MAX_RANK
    /\ rankGroups = <<>>
    /\ recommended = FALSE
    /\ contourPath = <<>>
    /\ contoured = FALSE
    /\ FloatIdle
    /\ masterStyles = <<>>
    /\ filteredStyles = <<>>
    /\ heatingScoreMin = DEFAULT_HEATING_MIN
    /\ heatingScoreMax = NO_SCORE
    /\ styleSets = createEmptyGenusData
    /\ selectedCoord = Null
    /\ selectedNormCoord = Null
    /\ selectedPointIndex = NO_INDEX
    /\ loadState = "pending"
    /\ fileLoad = Null
    /\ graphSized = FALSE
    /\ listener = Null
    /\ flushDue = TRUE
    /\ dirty = {"normalize", "filter", "reset"}
    /\ surfaced = "none"
    /\ clickCall = Null
    /\ StoreIdle

\* loadMasterStyles() resolves: setMasterStyles(styles).
MasterLoaded ==
    /\ loadState = "pending"
    /\ ~flushDue
    /\ \E list \in MasterLists : masterStyles' = list
    /\ loadState' = "done"
    /\ dirty' = {"normalize"}
    /\ flushDue' = TRUE
    /\ clickCall' = Null
    /\ UNCHANGED <<styleSet, normalizedStyles, rankMap, rankGroups,
                   filteredStyles, heatingScoreMin, heatingScoreMax, styleSets,
                   selectedCoord, selectedNormCoord, selectedPointIndex,
                   fileLoad, graphSized, listener, surfaced, appFrame>>

\* loadMasterStyles() rejects: the catch branch alerts.
MasterLoadFailed ==
    /\ loadState = "pending"
    /\ ~flushDue
    /\ loadState' = "failed"
    /\ surfaced' = "load-failed"
    /\ clickCall' = Null
    /\ UNCHANGED <<styleSet, normalizedStyles, rankMap, rankGroups,
                   masterStyles, filteredStyles, heatingScoreMin,
                   heatingScoreMax, styleSets, selectedCoord,
                   selectedNormCoord, selectedPointIndex, fileLoad, graphSized,
                   listener, flushDue, dirty, appFrame>>

\* One flush of the effects of the committed render, and the render that
\* commits what they set.  StyleGraph's effects run before App's: the
\* dimension effect of a graph just mounted, and the setup effect, which
\* returns early while dimensions.width is 0 and otherwise registers the
\* click listener with the props of the committed render.  Then App's
\* effects whose dependencies changed, in the order of their declaration.
Flush ==
    /\ flushDue
    /\ LET runNormalize == "normalize" \in dirty /\ Len(masterStyles) > 0
           runFilter == "filter" \in dirty
           runReset == "reset" \in dirty
           computed == calculateRankBasedNormalization(masterStyles, styleSet)
           newMin == IF runReset THEN styleSets[styleSet].heatingScoreMin
                     ELSE heatingScoreMin
           newMax == IF runReset THEN styleSets[styleSet].heatingScoreMax
                     ELSE heatingScoreMax
       IN  /\ graphSized' = TRUE
           /\ listener' = IF graphSized
                          THEN [styleSet |-> styleSet, rankMap |-> rankMap,
                                filteredStyles |-> filteredStyles]
                          ELSE listener
           /\ rankMap' = IF runNormalize THEN computed.rankMap ELSE rankMap
           /\ normalizedStyles' = IF runNormalize
                                  THEN computed.normalizedStyles
                                  ELSE normalizedStyles
           /\ filteredStyles' = IF runFilter
                                THEN filterByHeating(normalizedStyles,
                                                     heatingScoreMin,
                                                     heatingScoreMax)
                                ELSE filteredStyles
           /\ heatingScoreMin' = newMin
           /\ heatingScoreMax' = newMax
           /\ selectedCoord' = IF runReset THEN Null ELSE selectedCoord
           /\ selectedNormCoord' = IF runReset THEN Null
                                   ELSE selectedNormCoord
           /\ selectedPointIndex' = IF runReset THEN NO_INDEX
                                    ELSE selectedPointIndex
           /\ rankGroups' = IF runReset THEN <<>> ELSE rankGroups
           /\ dirty' = IF \/ runNormalize
                          \/ newMin # heatingScoreMin
                          \/ newMax # heatingScoreMax
                       THEN {"filter"} ELSE {}
           /\ flushDue' = (~graphSized \/ runNormalize \/ runFilter
                            \/ runReset)
    /\ clickCall' = Null
    /\ UNCHANGED <<styleSet, masterStyles, styleSets, loadState, fileLoad,
                   surfaced, appFrame>>

\* The style set select's onChange: setStyleSet(value).  StyleGraph has
\* key={styleSet}: the render that commits another style set mounts a new
\* graph, without listener and with dimensions.width 0.
SelectStyleSet ==
    /\ ~flushDue
    /\ \E s \in {"A", "B"} :
           /\ s # styleSet
           /\ styleSet' = s
    /\ graphSized' = FALSE
    /\ listener' = Null
    /\ dirty' = effectsOfStyleSet
    /\ flushDue' = TRUE
    /\ clickCall' = Null
    /\ UNCHANGED <<normalizedStyles, rankMap, rankGroups, masterStyles,
                   filteredStyles, heatingScoreMin, heatingScoreMax, styleSets,
                   selectedCoord, selectedNormCoord, selectedPointIndex,
                   loadState, fileLoad, surfaced, appFrame>>

\* The onChange of the heating score inputs: setHeatingScoreMin(val) or
\* setHeatingScoreMax(val), and the same value stored in genusData under
\* the style set.
SetHeatingScore ==
    /\ ~flushDue
    /\ \E val \in HeatingInputs :
           \/ /\ val # heatingScoreMin
              /\ heatingScoreMin' = val
              /\ styleSets' = [styleSets EXCEPT
                                  ![styleSet].heatingScoreMin = val]
              /\ UNCHANGED heatingScoreMax
           \/ /\ val # heatingScoreMax
              /\ heatingScoreMax' = val
              /\ styleSets' = [styleSets EXCEPT
                                  ![styleSet].heatingScoreMax = val]
              /\ UNCHANGED heatingScoreMin
    /\ dirty' = {"filter"}
    /\ flushDue' = TRUE
    /\ clickCall' = Null
    /\ UNCHANGED <<styleSet, normalizedStyles, rankMap, rankGroups,
                   masterStyles, filteredStyles, selectedCoord,
                   selectedNormCoord, selectedPointIndex, loadState, fileLoad,
                   graphSized, listener, surfaced, appFrame>>

\* handleLoad, reader.onload up to its await: setStyleSet(targetStyleSet)
\* for the style set the file names.
LoadFileBegin ==
    /\ ~flushDue
    /\ fileLoad = Null
    /\ \E file \in Files :
           /\ fileLoad' = file
           /\ styleSet' = file.styleSet
           /\ IF file.styleSet # styleSet
              THEN /\ graphSized' = FALSE
                   /\ listener' = Null
                   /\ dirty' = effectsOfStyleSet
                   /\ flushDue' = TRUE
              ELSE UNCHANGED <<graphSized, listener, dirty, flushDue>>
    /\ clickCall' = Null
    /\ UNCHANGED <<normalizedStyles, rankMap, rankGroups, masterStyles,
                   filteredStyles, heatingScoreMin, heatingScoreMax, styleSets,
                   selectedCoord, selectedNormCoord, selectedPointIndex,
                   loadState, surfaced, appFrame>>

\* handleLoad, after its await: loadGenusData has merged the file's range
\* into the style set the file names, updateGenusData stores the data, the
\* range of the target style set becomes the range in use, and an alert
\* reports the load.
LoadFileEnd ==
    /\ ~flushDue
    /\ fileLoad # Null
    /\ LET target == fileLoad.styleSet
           data == [styleSets EXCEPT
                       ![target] = [heatingScoreMin |->
                                        fileLoad.heatingScoreMin,
                                    heatingScoreMax |->
                                        fileLoad.heatingScoreMax]]
       IN  /\ styleSets' = data
           /\ heatingScoreMin' = data[target].heatingScoreMin
           /\ heatingScoreMax' = data[target].heatingScoreMax
           /\ dirty' = IF \/ data[target].heatingScoreMin # heatingScoreMin
                          \/ data[target].heatingScoreMax # heatingScoreMax
                       THEN {"filter"} ELSE {}
    /\ fileLoad' = Null
    /\ surfaced' = "loaded"
    /\ flushDue' = TRUE
    /\ clickCall' = Null
    /\ UNCHANGED <<styleSet, normalizedStyles, rankMap, rankGroups,
                   masterStyles, filteredStyles, selectedCoord,
                   selectedNormCoord, selectedPointIndex, loadState,
                   graphSized, listener, appFrame>>

\* A click on the graph, away from any saved point: the listener calls
\* onCoordinateClick(coord), the handleCoordinateClick of the render that
\* registered it.  No saved point is found, so foundIndex is null.
Click ==
    /\ listener # Null
    /\ \E normCoord \in ClickCoords(listener.styleSet) :
           IF listener.rankMap = Null
           THEN /\ clickCall' = [ready |-> FALSE, normCoord |-> normCoord]
                /\ UNCHANGED <<selectedCoord, selectedNormCoord,
                               selectedPointIndex, rankGroups, flushDue>>
           ELSE /\ clickCall' = [ready |-> TRUE, normCoord |-> normCoord,
                                 styleSet |-> listener.styleSet,
                                 rankMap |-> listener.rankMap,
                                 styles |-> listener.filteredStyles]
                /\ selectedCoord' = denormalizeRankBased(normCoord,
                                                         listener.rankMap,
                                                         listener.styleSet)
                /\ selectedNormCoord' = normCoord
                /\ selectedPointIndex' = NO_INDEX
                /\ rankGroups' = recommendStylesOfFractions(
                                     normCoord, listener.filteredStyles,
                                     listener.styleSet, 5)
                /\ flushDue' = TRUE
    /\ UNCHANGED <<styleSet, normalizedStyles, rankMap, masterStyles,
                   filteredStyles, heatingScoreMin, heatingScoreMax, styleSets,
                   loadState, fileLoad, graphSized, listener, dirty, surfaced,
                   appFrame>>

NextApp ==
    \/ MasterLoaded
    \/ MasterLoadFailed
    \/ Flush
    \/ SelectStyleSet
    \/ SetHeatingScore
    \/ LoadFileBegin
    \/ LoadFileEnd
    \/ Click

SpecApp == InitApp /\ [][NextApp]_vars

----------------------------------------------------------------------------
(* keyOf and parseKey.  A number is held by its sign and its magnitude in  *)
(* units of 1e-6, so that -0 is a number of its own; the text toFixed(5)   *)
(* makes of it by its "-" and its digits read as one integer, which counts *)
(* units of 1e-5.  A key 'x:..|y:..|z:..' is held by the three texts after *)
(* the colons, the text na by NA.                                          *)

NA == [na |-> TRUE]

Signed(neg, mag) == [neg |-> neg, mag |-> mag]

\* Number.prototype.toFixed(5): "-" when x < 0, which -0 is not, then the n
\* for which n / 1e5 is nearest to |x|, the larger of two equally near.
toFixed5(v) == [minus |-> (v.neg /\ v.mag > 0), n |-> (v.mag + 5) \div 10]

\* parseFloat of a text made by toFixed(5): "-0.00000" is -0.
parseFloat(text) == Signed(text.minus, 10 * text.n)

keyOf(coord) ==
    [x |-> toFixed5(coord.x),
     y |-> IF Has(coord, "y") THEN toFixed5(coord.y) ELSE NA,
     z |-> IF Has(coord, "z") THEN toFixed5(coord.z) ELSE NA]

parseKey(key) ==
    Coord(parseFloat(key.x),
          IF key.y # NA THEN parseFloat(key.y) ELSE Undefined,
          IF key.z # NA THEN parseFloat(key.z) ELSE Undefined)

\* Numbers a coordinate may hold: 0 and -0, magnitudes below and above
\* half of 1e-5, and one with six decimals.  None lies halfway between two
\* multiples of 1e-5.
KeyNumbers ==
    {Signed(neg, mag) : neg \in BOOLEAN, mag \in {0, 1, 4, 6, 123456}}

KeyCoords ==
    {Coord(x, y, z) : x \in KeyNumbers, y \in KeyNumbers \cup {Undefined},
                      z \in KeyNumbers \cup {Undefined}}

\* The variables the key calls leave alone.
keyFrame == <<styleSet, normVars, recVars, floatVars, appVars, storedPoints,
              storeOp, genus, genusDataMap>>

InitKey ==
    /\ styleSet = "A"
    /\ NormIdle
    /\ recStyles = <<>>
    /\ queryCoord = NoCoord
    /\ maxRank = DEFAULT_MAX_RANK
    /\ rankGroups = <<>>
    /\ recommended = FALSE
    /\ contourPath = <<>>
    /\ contoured = FALSE
    /\ FloatIdle
    /\ AppIdle
    /\ keyCoord \in KeyCoords
    /\ keyText = Null
    /\ parsedCoord = Null
    /\ keyAgain = Null
    /\ storedPoints = <<>>
    /\ storeOp = Null
    /\ genus = 1
    /\ genusDataMap = emptyGenusDataMap

KeyOf ==
    /\ keyText = Null
    /\ keyText' = keyOf(keyCoord)
    /\ UNCHANGED <<keyCoord, parsedCoord, keyAgain, keyFrame>>

ParseKey ==
    /\ keyText # Null
    /\ parsedCoord = Null
    /\ parsedCoord' = parseKey(keyText)
    /\ UNCHANGED <<keyCoord, keyText, keyAgain, keyFrame>>

KeyOfParsed ==
    /\ parsedCoord # Null
    /\ keyAgain = Null
    /\ keyAgain' = keyOf(parsedCoord)
    /\ UNCHANGED <<keyCoord, keyText, parsedCoord, keyFrame>>

NextKey == KeyOf \/ ParseKey \/ KeyOfParsed

SpecKey == InitKey /\ [][NextKey]_vars

----------------------------------------------------------------------------
(* The point store of one style set: data.style_sets[styleSet].points,    *)
(* written by upsertPoint and deletePoint.  A point is its coord and what  *)
(* is stored with it: score, note and product_ids.                         *)

MaxPoints == 3

\* points.findIndex((p) => keyOf(p.coord) === key), counted from 1; 0 for
\* the -1 of no match.
findIndexOfKey(points, key) ==
    IF \E i \in 1..Len(points) : keyOf(points[i].coord) = key
    THEN CHOOSE i \in 1..Len(points) :
             /\ keyOf(points[i].coord) = key
             /\ \A j \in 1..(i - 1) : keyOf(points[j].coord) # key
    ELSE 0

\* upsertPoint that always pushes.
upsertPointAlwaysPush(points, coord, payload) ==
    Append(points, [coord |-> coord, score |-> payload.score,
                    note |-> payload.note,
                    product_ids |-> payload.product_ids])

upsertPoint(points, coord, payload) ==
    LET existingIndex == findIndexOfKey(points, keyOf(coord))
        newPoint == [coord |-> coord, score |-> payload.score,
                     note |-> payload.note,
                     product_ids |-> payload.product_ids]
    IN  IF existingIndex # 0
        THEN [points EXCEPT ![existingIndex] = newPoint]
        ELSE Append(points, newPoint)

\* points.splice(existingIndex, 1) when the key is found.
deletePoint(points, coord) ==
    LET existingIndex == findIndexOfKey(points, keyOf(coord))
    IN  IF existingIndex # 0
        THEN [i \in 1..(Len(points) - 1) |->
                 IF i < existingIndex THEN points[i] ELSE points[i + 1]]
        ELSE points

\* Raw coordinates around 0 (magnitudes in units of 1e-6): 0, 0.000004 and
\* -0.000001 are one number at 5 decimals, 0.000006 and 0.000014 another.
StoreCoords ==
    {Coord(Signed(neg, mag), Signed(FALSE, 500000), Undefined) :
         neg \in {FALSE}, mag \in {0, 4, 6, 14}}
    \cup {Coord(Signed(TRUE, 1), Signed(FALSE, 500000), Undefined),
          Coord(Signed(FALSE, 0), Undefined, Undefined)}

Payloads ==
    {[score |-> 1, note |-> "", product_ids |-> <<>>],
     [score |-> 2, note |-> "n", product_ids |-> <<1>>]}

\* The variables the store calls leave alone.
storeFrame == <<styleSet, normVars, recVars, floatVars, appVars, keyCoord,
                keyText, parsedCoord, keyAgain, genus, genusDataMap>>

InitStore ==
    /\ styleSet = "A"
    /\ NormIdle
    /\ recStyles = <<>>
    /\ queryCoord = NoCoord
    /\ maxRank = DEFAULT_MAX_RANK
    /\ rankGroups = <<>>
    /\ recommended = FALSE
    /\ contourPath = <<>>
    /\ contoured = FALSE
    /\ FloatIdle
    /\ AppIdle
    /\ StoreIdle

\* upsertPoint(data, styleSet, coord, score, note, product_ids).
UpsertPoint ==
    /\ \E coord \in StoreCoords, payload \in Payloads :
           /\ \/ Len(storedPoints) < MaxPoints
              \/ findIndexOfKey(storedPoints, keyOf(coord)) # 0
           /\ storedPoints' = upsertPoint(storedPoints, coord, payload)
           /\ storeOp' = [op |-> "upsert", coord |-> coord,
                          payload |-> payload]
    /\ UNCHANGED storeFrame

\* deletePoint(data, styleSet, coord).
DeletePoint ==
    /\ \E coord \in StoreCoords :
           /\ storedPoints' = deletePoint(storedPoints, coord)
           /\ storeOp' = [op |-> "delete", coord |-> coord]
    /\ UNCHANGED storeFrame

NextStore == UpsertPoint \/ DeletePoint

SpecStore == InitStore /\ [][NextStore]_vars

----------------------------------------------------------------------------
(* The per-genus data map of the application and the handlers that write   *)
(* it through updateGenusData: the genus select, handleSaveScore and       *)
(* handleLoad.  A handler is the closure of the render in which genus,     *)
(* genusData = genusDataMap.get(genus) and updateGenusData have the values *)
(* of the state it runs in.  What handleSaveScore reads of the selection   *)
(* and of the score form is an input of the step.                          *)

\* updateGenusData(newData) of the render in which genus is closureGenus:
\* newMap.set(genus, newData).
updateGenusData(map, closureGenus, newData) ==
    [map EXCEPT ![closureGenus] = newData]

\* The coordinate handleSaveScore finds selected.
SaveCoords == {Coord(Signed(FALSE, 6), Signed(FALSE, 500000), Undefined)}

\* Files in the simplified format, which name a style set and a genus, and
\* a file in the full format.
GenusFiles ==
    {[format |-> "simplified", styleSet |-> "A", genus |-> 2,
      heatingScoreMin |-> 700, heatingScoreMax |-> 800,
      points |-> <<[coord |-> Coord(Signed(FALSE, 14),
                                    Signed(FALSE, 500000), Undefined),
                    score |-> 1, note |-> "", product_ids |-> <<>>]>>],
     [format |-> "simplified", styleSet |-> "B", genus |-> 1,
      heatingScoreMin |-> DEFAULT_HEATING_MIN, heatingScoreMax |-> NO_SCORE,
      points |-> <<>>],
     [format |-> "full", data |-> emptyGenusData(2)]}

\* loadGenusData(file, currentData, styleSet): the merge of a simplified
\* file into currentData, or the data of a full file as it is.
loadGenusData(file, currentData) ==
    IF file.format = "simplified"
    THEN [genus |-> file.genus,
          style_sets |-> [currentData.style_sets EXCEPT
                             ![file.styleSet] =
                                 [heatingScoreMin |-> file.heatingScoreMin,
                                  heatingScoreMax |-> file.heatingScoreMax,
                                  points |-> file.points]]]
    ELSE file.data

\* The variables the three handlers leave alone.
genusFrame == <<normVars, recVars, floatVars, masterStyles, filteredStyles,
                styleSets, selectedCoord, selectedNormCoord, loadState,
                fileLoad, graphSized, listener, flushDue, dirty, surfaced,
                clickCall, keyCoord, keyText, parsedCoord, keyAgain,
                storedPoints, storeOp>>

InitGenus ==
    /\ styleSet = "A"
    /\ NormIdle
    /\ recStyles = <<>>
    /\ queryCoord = NoCoord
    /\ maxRank = DEFAULT_MAX_RANK
    /\ rankGroups = <<>>
    /\ recommended = FALSE
    /\ contourPath = <<>>
    /\ contoured = FALSE
    /\ FloatIdle
    /\ AppIdle
    /\ StoreIdle

\* The genus select's onChange: setGenus(newGenus), and genusData with its
\* genus field set to newGenus handed to the updateGenusData of the render,
\* which stores it under the genus of that render.
SelectGenus ==
    /\ \E newGenus \in GENUS_OPTIONS \ {genus} :
           /\ genus' = newGenus
           /\ genusDataMap' =
                  updateGenusData(genusDataMap, genus,
                                  [genusDataMap[genus] EXCEPT
                                      !.genus = newGenus])
    /\ UNCHANGED <<styleSet, heatingScoreMin, heatingScoreMax,
                   selectedPointIndex, genusFrame>>

\* handleSaveScore with a coordinate selected: the point at
\* selectedPointIndex gets the score, note and product_ids, or, with no
\* index in range, upsertPoint stores the point and its index becomes the
\* selected one; the heating score range in use is stored with it.
SaveScore ==
    /\ LET genusData == genusDataMap[genus]
           points == genusData.style_sets[styleSet].points
       IN  \E selected \in SaveCoords, payload \in Payloads,
              index \in {NO_INDEX} \cup (0..(Len(points) - 1)) :
               LET newPoints ==
                       IF index # NO_INDEX
                       THEN [points EXCEPT ![index + 1] =
                                [coord |-> @.coord, score |-> payload.score,
                                 note |-> payload.note,
                                 product_ids |-> payload.product_ids]]
                       ELSE upsertPoint(points, selected, payload)
                   newData ==
                       [genusData EXCEPT
                           !.style_sets[styleSet] =
                               [heatingScoreMin |-> heatingScoreMin,
                                heatingScoreMax |-> heatingScoreMax,
                                points |-> newPoints]]
               IN  /\ Len(newPoints) <= MaxPoints
                   /\ selectedPointIndex' =
                          IF index # NO_INDEX THEN index
                          ELSE findIndexOfKey(newPoints, keyOf(selected)) - 1
                   /\ genusDataMap' = updateGenusData(genusDataMap, genus,
                                                      newData)
    /\ UNCHANGED <<styleSet, heatingScoreMin, heatingScoreMax, genus,
                   genusFrame>>

\* handleLoad: setStyleSet for the style set a simplified file names,
\* loadGenusData, data.genus = genus, updateGenusData(data), and the range
\* of the target style set becomes the range in use.
LoadGenusFile ==
    /\ \E file \in GenusFiles :
           LET targetStyleSet == IF file.format = "simplified"
                                 THEN file.styleSet ELSE styleSet
               loaded == loadGenusData(file, genusDataMap[genus])
               data == [loaded EXCEPT !.genus = genus]
           IN  /\ styleSet' = targetStyleSet
               /\ genusDataMap' = updateGenusData(genusDataMap, genus, data)
               /\ heatingScoreMin' =
                      data.style_sets[targetStyleSet].heatingScoreMin
               /\ heatingScoreMax' =
                      data.style_sets[targetStyleSet].heatingScoreMax
    /\ UNCHANGED <<genus, selectedPointIndex, genusFrame>>

NextGenus == SelectGenus \/ SaveScore \/ LoadGenusFile

SpecGenus == InitGenus /\ [][NextGenus]_vars

----------------------------------------------------------------------------
(* Properties of normalize. *)

Occurs(v, arr) == \E i \in 1..Len(arr) : arr[i] = v

\* The 0-based index of the first occurrence of v in arr.
FirstIndex(v, arr) ==
    CHOOSE i \in 0..(Len(arr) - 1) :
        /\ arr[i + 1] = v
        /\ \A j \in 0..(i - 1) : arr[j + 1] # v

CountIn(v, s) == Cardinality({i \in 1..Len(s) : s[i] = v})

IsAscending(arr) == \A i \in 1..(Len(arr) - 1) : arr[i] <= arr[i + 1]

\* arr holds exactly the elements of raw that satisfy Keep, each as often.
SameMultiset(arr, raw, Keep(_)) ==
    /\ \A i \in 1..Len(arr) : Keep(arr[i])
    /\ \A i \in 1..Len(raw) :
           Keep(raw[i]) => CountIn(raw[i], arr) = CountIn(raw[i], raw)
    /\ \A i \in 1..Len(arr) : CountIn(arr[i], arr) = CountIn(arr[i], raw)

NormOf(k) == normalizedStyles[k].normCoord
NormAt(k, a) == Comp(NormOf(k), a)

\* The rank the claim prescribes on one axis: i/(n-1), i the first index.
RankAtFirstIndex(v, arr, got) ==
    (Len(arr) >= 2 /\ Occurs(v, arr))
        => got = Rat(FirstIndex(v, arr), Len(arr) - 1)

\* C1: after normalize, on every active axis whose rank-map array has
\* length n >= 2, an entity whose raw value occurs in the array has the
\* normalised component i/(n-1), i being the index of the first occurrence
\* of the value; two entities with the same raw value on an active axis have
\* the same normalised value there.
C1_RankIsFirstOccurrence ==
    normalized =>
        /\ \A k \in 1..Len(styles) :
               /\ RankAtFirstIndex(styles[k].x, rankMap.x, NormAt(k, "x"))
               /\ styleSet = "A" =>
                      RankAtFirstIndex(styles[k].y, rankMap.y, NormAt(k, "y"))
               /\ styleSet = "B" =>
                      RankAtFirstIndex(styles[k].z, rankMap.z, NormAt(k, "z"))
        /\ \A k, l \in 1..Len(styles) :
               /\ styles[k].x = styles[l].x => NormAt(k, "x") = NormAt(l, "x")
               /\ (styleSet = "A" /\ styles[k].y = styles[l].y)
                      => NormAt(k, "y") = NormAt(l, "y")
               /\ (styleSet = "B" /\ styles[k].z = styles[l].z)
                      => NormAt(k, "z") = NormAt(l, "z")

\* C1 witness: a duplicated value sits at indexes 1 and 2 of rankMap.y and
\* its entity got rank 1/2, the first of the two.
C1_Witness ==
    /\ normalized
    /\ styleSet = "A"
    /\ Len(rankMap.y) = 3
    /\ rankMap.y[1] < rankMap.y[2]
    /\ rankMap.y[2] = rankMap.y[3]
    /\ \E k \in 1..Len(styles) :
           styles[k].y = rankMap.y[3] /\ NormAt(k, "y") = Half

\* C2: after normalize under A every entity whose raw y is -1 has no
\* normalised y, and under B every entity whose raw z is not in rankMap.z
\* has no normalised z, however many admissible values the set holds.
C2_SentinelAlwaysAbsent ==
    normalized =>
        \A k \in 1..Len(styles) :
            /\ (styleSet = "A" /\ styles[k].y = SENTINEL)
                   => NormAt(k, "y") = Undefined
            /\ (styleSet = "B" /\ ~Occurs(styles[k].z, rankMap.z))
                   => NormAt(k, "z") = Undefined

\* C8: under B a raw z is inadmissible exactly when it is -1 or |z| < 1e-4:
\* then it is not in rankMap.z and the normalised z is absent; every other z
\* is in rankMap.z and has a normalised z.
C8_ZInadmissibleByMagnitude ==
    (normalized /\ styleSet = "B") =>
        \A k \in 1..Len(styles) :
            LET z == styles[k].z
                inadmissible == z = SENTINEL \/ Abs(z) < Z_MIN
            IN  /\ inadmissible =>
                       (~Occurs(z, rankMap.z) /\ NormAt(k, "z") = Undefined)
                /\ ~inadmissible =>
                       (Occurs(z, rankMap.z) /\ NormAt(k, "z") # Undefined)

C10_RankMapContentA ==
    (normalized /\ styleSet = "A") =>
        LET KeepAll(v) == TRUE
            NotSentinel(v) == v # SENTINEL
        IN  /\ Len(rankMap.x) = Len(styles)
            /\ IsAscending(rankMap.x)
            /\ SameMultiset(rankMap.x, xValues(styles), KeepAll)
            /\ IsAscending(rankMap.y)
            /\ SameMultiset(rankMap.y, [i \in 1..Len(styles) |-> styles[i].y],
                            NotSentinel)
            /\ ~Occurs(SENTINEL, rankMap.y)

\* C10 witness: three entities under A in descending x order, one with
\* y = -1 and two with the same admissible y.
C10_Witness ==
    /\ normalized
    /\ styleSet = "A"
    /\ Len(styles) = 3
    /\ styles[1].x > styles[2].x
    /\ styles[2].x > styles[3].x
    /\ styles[1].y = SENTINEL
    /\ styles[2].y = styles[3].y
    /\ Len(rankMap.y) = 2
    /\ rankMap.x = <<styles[3].x, styles[2].x, styles[1].x>>

\* C11: after normalize, under either axis-pair, each of rankMap.x,
\* rankMap.y and rankMap.z is non-decreasing.
C11_RankMapNonDecreasing ==
    normalized =>
        /\ IsAscending(rankMap.x)
        /\ IsAscending(rankMap.y)
        /\ IsAscending(rankMap.z)

\* C11 witness: three entities under B listed in descending order of x and
\* of z, all z admissible, so both arrays had to be reordered.
C11_Witness ==
    /\ normalized
    /\ styleSet = "B"
    /\ Len(styles) = 3
    /\ styles[1].x > styles[3].x
    /\ styles[1].z > styles[2].z
    /\ Len(rankMap.z) = 2
    /\ rankMap.z[1] < rankMap.z[2]
    /\ rankMap.x[1] < rankMap.x[3]

\* a < b on an axis, both in the axis's array: the normalised value of a is
\* at most the normalised value of b.
MonotoneOn(a, b, arr, na, nb) ==
    (a < b /\ Occurs(a, arr) /\ Occurs(b, arr))
        => (na # Undefined /\ nb # Undefined /\ RatLeq(na, nb))

\* C12: for two entities of one normalize call whose raw values a < b on an
\* axis are both in that axis's rank-map array, the normalised value of a is
\* <= the normalised value of b.
C12_NormalizeMonotone ==
    normalized =>
        \A k, l \in 1..Len(styles) :
            /\ MonotoneOn(styles[k].x, styles[l].x, rankMap.x,
                          NormAt(k, "x"), NormAt(l, "x"))
            /\ styleSet = "A" =>
                   MonotoneOn(styles[k].y, styles[l].y, rankMap.y,
                              NormAt(k, "y"), NormAt(l, "y"))
            /\ styleSet = "B" =>
                   MonotoneOn(styles[k].z, styles[l].z, rankMap.z,
                              NormAt(k, "z"), NormAt(l, "z"))

\* C12 witness: under A the first entity has the larger x and the smaller y
\* of two, so its normalised x is 1 and its normalised y is 0.
C12_Witness ==
    /\ normalized
    /\ styleSet = "A"
    /\ Len(styles) = 2
    /\ styles[1].x > styles[2].x
    /\ styles[1].y # SENTINEL
    /\ styles[1].y < styles[2].y
    /\ NormOf(1) = [x |-> One, y |-> Zero]
    /\ NormOf(2) = [x |-> Zero, y |-> One]

InUnitInterval(r) == RatLeq(Zero, r) /\ RatLeq(r, One)

\* C13: every entity returned by normalize has a normalised x; every
\* component it has lies in [0,1]; it has no y under B and no z under A.
C13_NormCoordRange ==
    normalized =>
        /\ Len(normalizedStyles) = Len(styles)
        /\ \A k \in 1..Len(normalizedStyles) :
               /\ Has(NormOf(k), "x")
               /\ \A a \in DOMAIN NormOf(k) :
                      /\ a \in {"x", "y", "z"}
                      /\ NormOf(k)[a] # Undefined
                      /\ InUnitInterval(NormOf(k)[a])
               /\ styleSet = "B" => ~Has(NormOf(k), "y")
               /\ styleSet = "A" => ~Has(NormOf(k), "z")

\* C13 witness: under B, three entities of which one has z = -1 and only x,
\* and the others reach both ends of [0,1] on z.
C13_Witness ==
    /\ normalized
    /\ styleSet = "B"
    /\ Len(styles) = 3
    /\ styles[1].z = SENTINEL
    /\ DOMAIN NormOf(1) = {"x"}
    /\ NormAt(2, "z") = Zero
    /\ NormAt(3, "z") = One

----------------------------------------------------------------------------
(* Properties of recommend. *)

\* The claim's three conditions on an entity.
Participates(s) ==
    /\ s.display = TRUE
    /\ Has(s, "normCoord")
    /\ IF styleSet = "A" THEN Has(s.normCoord, "y") ELSE Has(s.normCoord, "z")

\* The squared distance of an entity to the query over the active axes.
DistSqOf(s) ==
    LET dx == queryCoord.x - s.normCoord.x
        ds == IF styleSet = "A" THEN queryCoord.y - s.normCoord.y
              ELSE queryCoord.z - s.normCoord.z
    IN  dx * dx + ds * ds

\* sqrt(sumSq), in units of 1e-6, rounds to r units of 1e-5.
RoundsTo(sumSq, r) ==
    /\ r >= 0
    /\ r = 0 \/ (10 * r - 5) * (10 * r - 5) <= sumSq
    /\ sumSq < (10 * r + 5) * (10 * r + 5)

GroupIds(g) == {g.styles[j].style_id : j \in 1..Len(g.styles)}
Grouped == UNION {GroupIds(rankGroups[i]) : i \in 1..Len(rankGroups)}
EligibleIds == {k \in 1..Len(recStyles) : Participates(recStyles[k])}

\* C4: every entity in a returned group is displayed, has a normalised
\* coordinate and has the active secondary component; an entity failing one
\* of the three is in no group.
C4_OnlyEligibleRecommended ==
    recommended =>
        /\ \A i \in 1..Len(rankGroups) :
               \A j \in 1..Len(rankGroups[i].styles) :
                   LET s == rankGroups[i].styles[j]
                   IN  /\ s.style_id \in 1..Len(recStyles)
                       /\ s = recStyles[s.style_id]
                       /\ Participates(s)
        /\ \A k \in 1..Len(recStyles) :
               ~Participates(recStyles[k]) => k \notin Grouped

\* C4 witness: the list holds a hidden entity, one without normCoord and one
\* without the secondary component, and the result is not empty.
C4_Witness ==
    /\ recommended
    /\ Len(rankGroups) >= 1
    /\ \E k \in 1..Len(recStyles) : recStyles[k].display = FALSE
    /\ \E k \in 1..Len(recStyles) : ~Has(recStyles[k], "normCoord")
    /\ \E k \in 1..Len(recStyles) :
           /\ recStyles[k].display = TRUE
           /\ Has(recStyles[k], "normCoord")
           /\ ~Participates(recStyles[k])

\* C5: the returned groups have ranks 1, 2, ..., k in list order with
\* k <= maxRank, strictly increasing distances, and a member each.
C5_OutputShape ==
    recommended =>
        /\ Len(rankGroups) <= maxRank
        /\ \A i \in 1..Len(rankGroups) :
               /\ rankGroups[i].rank = i
               /\ Len(rankGroups[i].styles) >= 1
               /\ i < Len(rankGroups) =>
                      rankGroups[i].distance < rankGroups[i + 1].distance

\* C5 witness: maxRank groups were returned and an eligible entity, farther
\* away, was left out.
C5_Witness ==
    /\ recommended
    /\ maxRank = 2
    /\ Len(rankGroups) = 2
    /\ EligibleIds \ Grouped # {}

\* C6: every eligible entity whose rounded distance is a returned group's
\* distance is a member of that group, the last group included.
C6_BoundaryNonDrop ==
    recommended =>
        \A i \in 1..Len(rankGroups) :
            \A k \in EligibleIds :
                RoundsTo(DistSqOf(recStyles[k]), rankGroups[i].distance)
                    => k \in GroupIds(rankGroups[i])

\* C6 witness: the last group has rank maxRank and got a further member
\* after it was opened, while a farther entity was left out.
C6_Witness ==
    /\ recommended
    /\ maxRank = 2
    /\ Len(rankGroups) = 2
    /\ Len(rankGroups[2].styles) >= 2
    /\ EligibleIds \ Grouped # {}

\* The eligible entities whose distance rounds to r.
AtRounded(r) == {k \in EligibleIds : RoundsTo(DistSqOf(recStyles[k]), r)}

\* The claim's example: rounded distances 1, 1, 2, 3, 3 (x 1e-5), maxRank 5.
TieExample ==
    /\ maxRank = 5
    /\ Cardinality(EligibleIds) = 5
    /\ Cardinality(AtRounded(1)) = 2
    /\ Cardinality(AtRounded(2)) = 1
    /\ Cardinality(AtRounded(3)) = 2

\* C7: every member of a group has a distance to the query that rounds to
\* the group's distance, no two groups have the same distance, no entity is
\* in two groups or twice in one, and the example gives three groups of
\* sizes 2, 1, 2.
C7_TieGrouping ==
    recommended =>
        /\ \A i \in 1..Len(rankGroups) :
               \A j \in 1..Len(rankGroups[i].styles) :
                   LET s == rankGroups[i].styles[j]
                   IN  /\ Participates(s)
                       /\ RoundsTo(DistSqOf(s), rankGroups[i].distance)
        /\ \A i, j \in 1..Len(rankGroups) :
               i # j => rankGroups[i].distance # rankGroups[j].distance
        /\ \A k \in 1..Len(recStyles) :
               Cardinality({p \in {<<i, j>> : i \in 1..Len(rankGroups),
                                              j \in 1..MaxEntities + 1} :
                               /\ p[2] <= Len(rankGroups[p[1]].styles)
                               /\ rankGroups[p[1]].styles[p[2]].style_id = k})
                   <= 1
        /\ TieExample =>
               /\ Len(rankGroups) = 3
               /\ Len(rankGroups[1].styles) = 2
               /\ Len(rankGroups[2].styles) = 1
               /\ Len(rankGroups[3].styles) = 2
               /\ rankGroups[1].distance = 1
               /\ rankGroups[2].distance = 2
               /\ rankGroups[3].distance = 3

\* C7 witness: the example, with the entities not in distance order and the
\* two nearest at different distances that round alike.
C7_Witness ==
    /\ recommended
    /\ TieExample
    /\ Len(rankGroups) = 3
    /\ DistSqOf(recStyles[1]) > DistSqOf(recStyles[5])
    /\ \E k, l \in AtRounded(1) :
           DistSqOf(recStyles[k]) < DistSqOf(recStyles[l])

\* A rounded distance (units of 1e-5) both entities' distances round to.
SameRounded(k, l) ==
    \E r \in 0..10 : /\ RoundsTo(DistSqOf(recStyles[k]), r)
                     /\ RoundsTo(DistSqOf(recStyles[l]), r)

AllDistancesEqual ==
    /\ EligibleIds # {}
    /\ \A k, l \in EligibleIds : SameRounded(k, l)

\* C17: when the eligible set is not empty, all eligible entities have the
\* same rounded distance to the query and maxRank >= 1, the result is one
\* group, of rank 1, whose members are exactly the eligible entities.
C17_AllEqualOneGroup ==
    (recommended /\ AllDistancesEqual /\ maxRank >= 1) =>
        /\ Len(rankGroups) = 1
        /\ rankGroups[1].rank = 1
        /\ GroupIds(rankGroups[1]) = EligibleIds
        /\ Len(rankGroups[1].styles) = Cardinality(EligibleIds)

\* C17 witness: three eligible entities at two different distances that
\* round alike, next to an ineligible one, gave one group of three.
C17_Witness ==
    /\ recommended
    /\ AllDistancesEqual
    /\ maxRank >= 1
    /\ Cardinality(EligibleIds) = 3
    /\ Len(recStyles) > 3
    /\ \E k, l \in EligibleIds :
           DistSqOf(recStyles[k]) < DistSqOf(recStyles[l])
    /\ Len(rankGroups) = 1
    /\ Len(rankGroups[1].styles) = 3

\* C18: recommend returns the empty list whenever no entity is eligible, the
\* empty entity list included, and generateContourPath returns the empty
\* path whenever its entity list is empty.
C18_EmptyInputs ==
    /\ (recommended /\ EligibleIds = {}) => rankGroups = <<>>
    /\ (contoured /\ Len(recStyles) = 0) => contourPath = <<>>
    /\ (contoured /\ Len(recStyles) > 0) => contourPath # <<>>

\* C18 witness: both functions have returned for the empty entity list and
\* a default maxRank, with nothing in their results.
C18_Witness ==
    /\ recStyles = <<>>
    /\ maxRank = DEFAULT_MAX_RANK
    /\ recommended
    /\ contoured
    /\ rankGroups = <<>>
    /\ contourPath = <<>>

\* The distinct rounded distances (x 1e-5) of the eligible entities.
DistinctRounded == {r \in 0..9 : AtRounded(r) # {}}

\* The distances of the returned groups.
GroupDistances == {rankGroups[i].distance : i \in 1..Len(rankGroups)}

\* C25: the result holds the groups of exactly the min(maxRank, d) smallest
\* of the d distinct rounded distances among the eligible entities, each
\* group with all the entities at its distance; no eligible entity outside
\* the result is closer to the query than, or as close as, one inside.
C25_NearestFirst ==
    recommended =>
        LET dr == DistinctRounded
            gd == GroupDistances
            d == Cardinality(dr)
            m == IF maxRank < d THEN maxRank ELSE d
        IN  /\ \A k \in EligibleIds : \E r \in dr :
                   RoundsTo(DistSqOf(recStyles[k]), r)
            /\ Len(rankGroups) = m
            /\ Cardinality(gd) = m
            /\ gd \subseteq dr
            /\ \A r \in dr \ gd : \A g \in gd : g < r
            /\ \A i \in 1..Len(rankGroups) :
                   GroupIds(rankGroups[i]) = AtRounded(rankGroups[i].distance)
            /\ \A out \in EligibleIds \ Grouped : \A g \in gd :
                   DistSqOf(recStyles[out]) >= (10 * g + 5) * (10 * g + 5)

\* Three distinct rounded distances, maxRank 2, the entities listed with the
\* farthest first: two groups returned, the farthest entity left out.
C25_Witness ==
    /\ recommended
    /\ maxRank = 2
    /\ Cardinality(DistinctRounded) = 3
    /\ Len(rankGroups) = 2
    /\ EligibleIds \ Grouped # {}
    /\ 1 \in EligibleIds \ Grouped

\* The list without the entities that fail one of the three conditions.
OnlyParticipants(ss) == SelectSeq(ss, Participates)

\* The query with the component v on the inactive axis.
WithInactive(query, v) ==
    IF styleSet = "A" THEN [x |-> query.x, y |-> query.y, z |-> v]
    ELSE [x |-> query.x, y |-> v, z |-> query.z]

\* C29: the groups returned for a list are the groups returned for the
\* list without its hidden entities, its entities without normalized
\* coordinate and those lacking the active secondary component, and the
\* groups returned for a query that differs in the component of the
\* inactive axis: same ranks, distances and members.
C29_IgnoresIneligibleAndInactive ==
    recommended =>
        /\ rankGroups = recommendStyles(queryCoord, OnlyParticipants(recStyles),
                                        styleSet, maxRank)
        /\ \A v \in {0, 7} :
               rankGroups = recommendStyles(WithInactive(queryCoord, v),
                                            recStyles, styleSet, maxRank)

\* Two groups were returned for a list that holds, before and between the
\* eligible entities, a hidden one, one without normCoord and one lacking
\* the secondary component.
C29_Witness ==
    /\ recommended
    /\ maxRank = 5
    /\ Len(rankGroups) = 2
    /\ Len(recStyles) = 5
    /\ ~Participates(recStyles[1])
    /\ Participates(recStyles[2])
    /\ Participates(recStyles[5])
    /\ \E k \in 1..5 : recStyles[k].display = FALSE
    /\ \E k \in 1..5 : ~Has(recStyles[k], "normCoord")
    /\ \E k \in 1..5 : /\ recStyles[k].display = TRUE
                         /\ Has(recStyles[k], "normCoord")
                         /\ ~Participates(recStyles[k])

\* The entity has a position in the plane of the style set: a normCoord
\* with the active secondary component.
Placed(s) ==
    /\ Has(s, "normCoord")
    /\ Has(s.normCoord, IF styleSet = "A" THEN "y" ELSE "z")

\* The active secondary component of a coordinate that has it.
SecondaryOf(coord) == IF styleSet = "A" THEN coord.y ELSE coord.z

\* The square of the planar distance of a placed entity to the query.
PlanarDistSq(s) ==
    (s.normCoord.x - queryCoord.x) * (s.normCoord.x - queryCoord.x)
    + (SecondaryOf(s.normCoord) - SecondaryOf(queryCoord))
      * (SecondaryOf(s.normCoord) - SecondaryOf(queryCoord))

C24_ContourClosed ==
    (contoured /\ contourPath # <<>>) =>
        firstAgainstLast(contourPath) # "apart"

----------------------------------------------------------------------------
(* Properties of denormalize after normalize. *)

\* f lies between the integers lo and lo + 1, lo included.
Brackets(lo, f) == RatLeq(Num(lo), f) /\ RatLess(f, Num(lo + 1))

\* The value the claim prescribes for the rank r against arr, n >= 2.
Interpolated(r, arr, got) ==
    LET c == RatMin(One, RatMax(Zero, r))
        f == RatMul(c, Num(Len(arr) - 1))
    IN  \E lo \in 0..(Len(arr) - 1) :
            /\ Brackets(lo, f)
            /\ IF f = Num(lo) THEN got = Num(arr[lo + 1])
               ELSE LET w == RatSub(f, Num(lo))
                    IN  got = RatAdd(RatMul(Num(arr[lo + 1]), RatSub(One, w)),
                                     RatMul(Num(arr[lo + 2]), w))

InterpolatedOn(a) ==
    (Has(denormOut, a) /\ Len(rankMap[a]) >= 2) =>
        /\ Interpolated(normCoordIn[a], rankMap[a], denormOut[a])
        /\ RatLeq(normCoordIn[a], Zero) => denormOut[a] = Num(rankMap[a][1])
        /\ RatLeq(One, normCoordIn[a])
               => denormOut[a] = Num(rankMap[a][Len(rankMap[a])])

\* C14: against an array arr of length n >= 2, denormalize turns a present
\* normalised value r into arr[lo]*(1-w) + arr[hi]*w, with c = r clamped to
\* [0,1], f = c*(n-1), lo = floor(f), hi = ceil(f), w = f - lo (arr[lo] when
\* lo = hi); r <= 0 gives arr[0], r >= 1 gives arr[n-1], and [0.3, 0.7]
\* with r = 0.5 gives 0.5.
C14_DenormalizeInterpolates ==
    normCoordIn # NoCoord =>
        /\ \A a \in {"x", "y", "z"} : InterpolatedOn(a)
        /\ (Has(denormOut, "y") /\ rankMap.y = <<3000, 7000>>
                /\ normCoordIn.y = Half)
               => denormOut.y = Num(5000)

\* C14 witness: rankMap.y = [0.3, 0.7] and the rank 0.5 gave y = 0.5, while
\* x, at rank 1/4 of three different values, lies strictly between the first
\* two.
C14_Witness ==
    /\ normCoordIn # NoCoord
    /\ styleSet = "A"
    /\ rankMap.y = <<3000, 7000>>
    /\ Len(rankMap.x) = 3
    /\ normCoordIn = [x |-> Rat(1, 4), y |-> Half]
    /\ denormOut.y = Num(5000)
    /\ RatLess(Num(rankMap.x[1]), denormOut.x)
    /\ RatLess(denormOut.x, Num(rankMap.x[2]))

DegenerateOn(a) ==
    Has(denormOut, a) =>
        /\ Len(rankMap[a]) = 0 => denormOut[a] = Zero
        /\ Len(rankMap[a]) = 1 => denormOut[a] = Num(rankMap[a][1])

\* C15: a component denormalised against an empty array is 0 and against a
\* one-element array is that element, whatever the normalised value; a
\* coordinate with only x against {x: [], y: [], z: []} gives {x: 0}.
C15_DenormalizeDegenerate ==
    normCoordIn # NoCoord =>
        /\ \A a \in {"x", "y", "z"} : DegenerateOn(a)
        /\ (DOMAIN normCoordIn = {"x"} /\ rankMap = NoRankMap)
               => denormOut = [x |-> Zero]

\* C15 witness: one entity under A with y = -1, so rankMap.x has one element
\* and rankMap.y none; a rank above 1 on x and 0.5 on y gave that element
\* and 0.
C15_Witness ==
    /\ normCoordIn # NoCoord
    /\ styleSet = "A"
    /\ Len(rankMap.x) = 1
    /\ Len(rankMap.y) = 0
    /\ normCoordIn = [x |-> Rat(3, 2), y |-> Half]
    /\ denormOut = [x |-> Num(rankMap.x[1]), y |-> Zero]

\* C16: the result of denormalize has x; it has y exactly when the axis-pair
\* is A and the input has y, and z exactly when the axis-pair is B and the
\* input has z.
C16_AbsencePropagates ==
    normCoordIn # NoCoord =>
        /\ Has(denormOut, "x")
        /\ DOMAIN denormOut \subseteq {"x", "y", "z"}
        /\ Has(denormOut, "y") <=> (styleSet = "A" /\ Has(normCoordIn, "y"))
        /\ Has(denormOut, "z") <=> (styleSet = "B" /\ Has(normCoordIn, "z"))
        /\ \A a \in DOMAIN denormOut : denormOut[a] # Undefined

\* C16 witness: under B with a non-empty rank map, an input with x and y but
\* no z gave a result with x only.
C16_Witness ==
    /\ normCoordIn # NoCoord
    /\ styleSet = "B"
    /\ Len(rankMap.z) >= 1
    /\ DOMAIN normCoordIn = {"x", "y"}
    /\ DOMAIN denormOut = {"x"}

\* C3: for a raw value v of an axis's rank-map array, denormalize applied to
\* the normalised value normalize assigns to v returns exactly v, for
\* arrays of any length and with duplicates.
C3_InverseAtExactRanks ==
    fpc = "done" =>
        (Occurs(styles[fIndex].x, rankMap.x)
            => fDenorm = FromInt(styles[fIndex].x))

----------------------------------------------------------------------------
(* Properties of the application. *)

\* The last step was a click that found no RankMap.
ClickedNotReady == clickCall # Null /\ ~clickCall.ready

\* The last step was a click that called denormalize and recommend.
ClickedReady == clickCall # Null /\ clickCall.ready

\* C19: a click that arrives before normalize has produced a RankMap is
\* surfaced as a not-ready failure and leaves the selected coordinate, the
\* selected point index and the rank groups unchanged.
C19_NotReadySurfaced ==
    [][ClickedNotReady' =>
           /\ surfaced' = "not-ready"
           /\ UNCHANGED <<selectedCoord, selectedPointIndex, rankGroups>>]_vars

\* C20: every click that calls denormalize and recommend passes the current
\* style set, the RankMap that normalize computes from the current entities
\* under the current style set, and entities normalised by that same call.
C20_ClickUsesCurrentCache ==
    ClickedReady =>
        LET current == calculateRankBasedNormalization(masterStyles, styleSet)
        IN  /\ clickCall.styleSet = styleSet
            /\ clickCall.rankMap = current.rankMap
            /\ \A k \in 1..Len(clickCall.styles) :
                   Occurs(clickCall.styles[k], current.normalizedStyles)

\* C26: a change of styleSet, by the selector or by a loaded file, leaves
\* the reset of the selection to run; the step that processes it clears
\* selectedCoord, selectedNormCoord and selectedPointIndex and empties
\* rankGroups; and rank groups are only ever written by a click handled
\* under the current styleSet with no reset left to run, so none computed
\* under the previous styleSet is in state once the change is processed.
C26_StyleSetChangeResets ==
    [][/\ styleSet' # styleSet =>
              ("reset" \in dirty' /\ flushDue' /\ listener' = Null)
       /\ "reset" \in dirty =>
              /\ "reset" \notin dirty'
              /\ styleSet' = styleSet
              /\ selectedCoord' = Null
              /\ selectedNormCoord' = Null
              /\ selectedPointIndex' = NO_INDEX
              /\ rankGroups' = <<>>
       /\ (rankGroups' # rankGroups /\ rankGroups' # <<>>) =>
              /\ "reset" \notin dirty'
              /\ clickCall' # Null
              /\ clickCall'.ready
              /\ clickCall'.styleSet = styleSet'
      ]_vars

\* A loaded file has named the other style set while a clicked coordinate
\* and its rank groups, computed under the previous one, are in state: the
\* reset is to run.
C26_Witness ==
    /\ "reset" \in dirty
    /\ fileLoad # Null
    /\ styleSet = "B"
    /\ selectedCoord # Null
    /\ selectedNormCoord # Null
    /\ rankGroups # <<>>

\* C28: for every raw value of an array of the rank map, the position the
\* application's getRank helper computes is the normalized value the
\* normalizer's getRank assigns to it.
C28_HelperAgreesWithNormalizer ==
    normalized =>
        \A a \in {"x", "y", "z"} :
            \A i \in 1..Len(rankMap[a]) :
                appGetRank(rankMap[a][i], rankMap[a])
                    = getRank(rankMap[a][i], rankMap[a])

----------------------------------------------------------------------------
(* Properties of the point store. *)

\* Some stored point has the key of coord.
Stored(points, coord) ==
    \E i \in 1..Len(points) : keyOf(points[i].coord) = keyOf(coord)

\* The point the last call was to store.
PointOf(op) ==
    [coord |-> op.coord, score |-> op.payload.score, note |-> op.payload.note,
     product_ids |-> op.payload.product_ids]

\* What a call of the store does to the list, by the call made.
StoreCallEffect ==
    /\ (storeOp'.op = "upsert" /\ Stored(storedPoints, storeOp'.coord))
           => /\ Len(storedPoints') = Len(storedPoints)
              /\ \E i \in 1..Len(storedPoints) :
                     /\ keyOf(storedPoints[i].coord) = keyOf(storeOp'.coord)
                     /\ storedPoints'[i] = PointOf(storeOp')
                     /\ \A j \in 1..Len(storedPoints) :
                            j # i => storedPoints'[j] = storedPoints[j]
    /\ (storeOp'.op = "upsert" /\ ~Stored(storedPoints, storeOp'.coord))
           => storedPoints' = storedPoints \o <<PointOf(storeOp')>>
    /\ (storeOp'.op = "delete" /\ ~Stored(storedPoints, storeOp'.coord))
           => storedPoints' = storedPoints

\* C27: from the empty list on, no two stored points have the same key; an
\* upsert of a stored key replaces the point at its index and changes
\* neither the length nor another point, an upsert of a new key appends one
\* point, and a delete of a key not stored leaves the list as it was.
C27_KeyUniqueness ==
    /\ [](\A i, j \in 1..Len(storedPoints) :
              keyOf(storedPoints[i].coord) = keyOf(storedPoints[j].coord)
                  => i = j)
    /\ [][StoreCallEffect]_vars

\* The list holds three points, the second of which was just replaced by an
\* upsert of a coordinate that differs from the stored one and has its key.
C27_Witness ==
    /\ Len(storedPoints) = 3
    /\ storeOp # Null
    /\ storeOp.op = "upsert"
    /\ storedPoints[2] = PointOf(storeOp)
    /\ storeOp.coord.x.mag = 14
    /\ \E i \in {1, 3} : storedPoints[i].coord.x = Signed(TRUE, 1)
    /\ \E i \in {1, 3} : storedPoints[i].coord.x = Signed(FALSE, 0)

----------------------------------------------------------------------------
(* Properties of the per-genus data map. *)

\* C30: the record stored under the key g of the per-genus data map has
\* the genus field g, and a step that selects another genus leaves the
\* record of the genus selected before as it was.
C30_GenusMapConsistent ==
    /\ [](\A g \in GENUS_OPTIONS : genusDataMap[g].genus = g)
    /\ [][genus' # genus => genusDataMap'[genus] = genusDataMap[genus]]_vars

----------------------------------------------------------------------------
(* Properties of the four calls side by side. *)

\* out is the list in, in its order, each entity with all the fields it
\* had and a normCoord the input entity does not carry.
KeepsEntities(in, out) ==
    /\ Len(out) = Len(in)
    /\ \A i \in 1..Len(in) :
           /\ ~Has(in[i], "normCoord")
           /\ DOMAIN out[i] = DOMAIN in[i] \cup {"normCoord"}
           /\ \A a \in DOMAIN in[i] : out[i][a] = in[i][a]

\* Every member of a group is an entity of the list, as it is there.
MembersAreEntities(groups, ss) ==
    \A g \in 1..Len(groups) :
        \A m \in 1..Len(groups[g].styles) : Occurs(groups[g].styles[m], ss)

----------------------------------------------------------------------------
(* Properties of keyOf and parseKey. *)

\* a === b for two numbers: -0 equals 0.
NumEq(a, b) == a.mag = b.mag /\ (a.mag = 0 \/ a.neg = b.neg)

\* v rounded to 5 decimals.
Rounded5(v) == Signed(v.neg, 10 * ((v.mag + 5) \div 10))

\* The text t is v at 5 decimals: the digits of |v| rounded, after a "-"
\* when v is below 0.
TextOf(t, v) ==
    /\ t # NA
    /\ t.n = (v.mag + 5) \div 10
    /\ t.minus = (v.neg /\ v.mag > 0)

\* C22: keyOf renders each present component at 5 decimals and each absent
\* one as na; parseKey(keyOf(c)) has the components c has, each equal to
\* c's rounded to 5 decimals; keyOf(parseKey(keyOf(c))) = keyOf(c).
C22_KeyRoundTrip ==
    /\ keyText # Null =>
           \A a \in {"x", "y", "z"} :
               IF Has(keyCoord, a) THEN TextOf(keyText[a], keyCoord[a])
               ELSE keyText[a] = NA
    /\ parsedCoord # Null =>
           /\ DOMAIN parsedCoord = DOMAIN keyCoord
           /\ \A a \in DOMAIN keyCoord :
                  NumEq(parsedCoord[a], Rounded5(keyCoord[a]))
    /\ keyAgain # Null => keyAgain = keyText

====
